---- MODULE Spec2Model ----
(***************************************************************************)
(* A model of otter's step coordinator and worker pool                     *)
(* (otter/step/coordinator.py, otter/step/worker.py), of the storage       *)
(* backends' revision-aware read and write (otter/storage/...) and of the  *)
(* manifest's read-modify-write update (otter/manifest/model.py).          *)
(***************************************************************************)
EXTENDS Integers, Sequences, FiniteSets, TLC

(***************************************************************************)
(* Bounds of the model.                                                    *)
(***************************************************************************)
\* config.pool_size: the number of worker processes the coordinator starts
NumWorkers == 2
\* the largest number of specs one task pushes into its context during run
MaxEmit == 2

\* the number of processes that use the storage location at the same time
NumProcs == 2
\* the number of storage operations all the processes start, in total
MaxOps == 2
\* the last tick of the filesystem's modification-time clock
MaxClock == 2
\* the number of lock files (inodes) created at the lock path
MaxIno == 2

\* the names a parent's emitted specs take, in order
KidPool == <<"c1", "c2", "c3", "c4">>

None == "None"

(***************************************************************************)
(* Specs, tasks and the task state machine.                                *)
(***************************************************************************)
MkSpec(n, req) == [name |-> n, requires |-> req]

\* the steps (lists of specs) a run is started with
StepChoices ==
    { << >>,
      << MkSpec("a", {}) >>,
      << MkSpec("a", {}), MkSpec("b", {"a"}) >>,
      << MkSpec("b", {"a"}), MkSpec("a", {}) >>,
      << MkSpec("p", {}) >>,
      << MkSpec("p", {}), MkSpec("b", {"p"}) >>,
      << MkSpec("a", {}), MkSpec("b", {}), MkSpec("d", {"a", "b"}) >>,
      << MkSpec("b", {"x"}) >>,
      << MkSpec("a", {}), MkSpec("a", {}) >>,
      << MkSpec("a", {}), MkSpec("a", {"a"}) >> }

State == {"PENDING_RUN", "RUNNING", "WAITING_FOR_SUBTASKS",
          "PENDING_VALIDATION", "VALIDATING", "DONE"}

Result == {"PENDING", "SUCCESS", "FAILURE", "ABORTED"}

\* registry.build(spec): a fresh task in PENDING_RUN with an empty context
NewTask(s) ==
    [name |-> s.name, requires |-> s.requires, state |-> "PENDING_RUN",
     result |-> "PENDING", specs |-> << >>, scratchpad |-> {}]

\* what a worker that holds no task holds
NoTask ==
    [name |-> None, requires |-> {}, state |-> None, result |-> None, specs |-> << >>,
     scratchpad |-> {}]

\* Task.get_next_state
GetNextState(t) ==
    CASE t.state = "PENDING_RUN" -> "RUNNING"
      [] t.state = "RUNNING" ->
            IF t.specs # << >> THEN "WAITING_FOR_SUBTASKS" ELSE "PENDING_VALIDATION"
      [] t.state = "WAITING_FOR_SUBTASKS" -> "PENDING_VALIDATION"
      [] t.state = "PENDING_VALIDATION" -> "VALIDATING"
      [] OTHER -> "DONE"

VARIABLES
    step_specs,       \* step.specs, the specs the step was constructed with
    emit_count,       \* how many specs the task named "p" pushes during run
    can_fail,         \* whether task bodies of this run may raise
    step_tasks,       \* step.tasks: name -> the coordinator's copy of the task
    manifest_tasks,   \* step.manifest.tasks
    remaining_specs,  \* Coordinator._remaining_specs
    spec_count,       \* Coordinator._spec_count
    task_queue,       \* Coordinator._task_queue
    result_queue,     \* Coordinator._result_queue
    task_subtasks,    \* Coordinator._task_subtasks, in insertion order
    shutdown_event,   \* Coordinator._shutdown_event
    workers,          \* the worker processes: what each is doing
    cpc,              \* where Coordinator.run is
    failure_reason,   \* the failure_reason passed to step.finish
    step_result,      \* the result passed to step.finish
    scratchpad        \* task_registry.scratchpad: the global scratchpad, (key, value) pairs

cvars == <<step_specs, emit_count, can_fail, step_tasks, manifest_tasks,
           remaining_specs, spec_count, task_queue, result_queue, task_subtasks,
           shutdown_event, workers, cpc, failure_reason, step_result, scratchpad>>

VARIABLES
    backend,    \* the backend the handle resolved to: "fs" or "gs"
    obj,        \* the stored resource: exists, content, rev (mtime or generation)
    clock,      \* the filesystem's clock, in units of its mtime resolution
    next_gen,   \* the generation the object store gives the next upload
    lock_ino,   \* the inode at the lock path (0: no lock file)
    next_ino,   \* the next inode the filesystem creates at the lock path
    flocked,    \* the inodes on which a process holds flock
    ops,        \* the number of storage operations started so far
    proc,       \* per process: where it is in its storage operation, and its locals
    man         \* per process: where it is in Manifest.update, and its locals

svars == <<backend, obj, clock, next_gen, lock_ino, next_ino, flocked, ops, proc, man>>

VARIABLES
    handle,     \* a StorageHandle under construction: its arguments and what it resolved to
    copy        \* a copy_to call: the source, the destination and how far the call is

VARIABLES
    mgr,        \* per process: its ManifestManager, and where complete() is
    remote,     \* the manifest at the release URI: its generation and its steps
    invoked,    \* how often run and validate of each task have been called so far
    step_artifacts  \* step.manifest.artifacts

VARIABLES
    disk,       \* the local filesystem: the content of the file at each path
    cw          \* a copy on the local filesystem: source, destination, how far it is

fvars == <<disk, cw>>

xvars == <<mgr, remote, invoked, step_artifacts, fvars>>

hvars == <<handle, copy, xvars>>

vars == <<cvars, svars, hvars>>

Workers == 1..NumWorkers

Procs == 1..NumProcs

\* no ManifestManager exists and the release has no manifest
NoManager == [pc |-> "none"]
NoRemote == [generation |-> 0]
NoneInvoked == << >>
NoCopyWithin == [pc |-> "none"]
ExtraIdle ==
    /\ mgr = [p \in Procs |-> NoManager]
    /\ remote = NoRemote
    /\ invoked = NoneInvoked
    /\ step_artifacts = << >>
    /\ disk = << >>
    /\ cw = NoCopyWithin

\* no StorageHandle is being constructed
NoHandle == [pc |-> "none"]
NoCopy == [pc |-> "none"]
HandleIdle == handle = NoHandle /\ copy = NoCopy /\ ExtraIdle

\* the specs the body of the task `name` pushes into context.specs
Emits(name) ==
    IF name = "p" THEN [i \in 1..emit_count |-> MkSpec(KidPool[i], {})] ELSE << >>

\* the names of the tasks on the queue q
NamesOn(q) == {q[i].name : i \in 1..Len(q)}

\* the sentinels the run of the task of this name stores in its local
\* scratchpad: one under a key every task writes, one under a key of its own
Stores(name) == {<<"shared", name>>, <<name, name>>}

\* the keys of a scratchpad
Keys(sp) == {kv[1] : kv \in sp}

\* Scratchpad.merge: a.merge(b) inserts the keys of b that a does not hold
Merge(a, b) == a \cup {kv \in b : kv[1] \notin Keys(a)}

Put(f, k, v) == [x \in DOMAIN f \cup {k} |-> IF x = k THEN v ELSE f[x]]

(***************************************************************************)
(* The coordinator's helpers work on a record cs of its private state:     *)
(* tasks, manifest, remaining, spec_count, subtasks, tq (the task queue)   *)
(* and err (the exception raised, or None).                                *)
(***************************************************************************)

\* a variant of _is_spec_ready that lets a requirement that is not built yet pass
IsSpecReadySkipsUnbuilt(tasks, spec) ==
    \A r \in spec.requires : r \in DOMAIN tasks => tasks[r].state = "DONE"

\* Coordinator._is_spec_ready
IsSpecReady(tasks, spec) ==
    \A r \in spec.requires : r \in DOMAIN tasks /\ tasks[r].state = "DONE"

\* task.artifacts: the run of a task sets its artifacts as its last statement,
\* so a task has them from the return of a successful run on
TaskArtifacts(t) ==
    IF \/ t.state = "RUNNING" /\ t.result = "SUCCESS"
       \/ t.state \in {"WAITING_FOR_SUBTASKS", "PENDING_VALIDATION", "VALIDATING", "DONE"}
    THEN << t.name >> ELSE << >>

\* Step.upsert_task_manifest, the artifacts: when the task has an entry and
\* has artifacts, self.manifest.artifacts.extend(task.artifacts)
UpsertArtifacts(cs, t) ==
    IF t.name \in NamesOn(cs.manifest)
    THEN cs.artifacts \o TaskArtifacts(t)
    ELSE cs.artifacts

\* a variant of upsert_task_manifest that appends whether or not the task
\* has an entry
UpsertTaskManifestAppends(m, t) ==
    Append(m, [name |-> t.name, result |-> t.result])

\* Step.upsert_task_manifest, the tasks
UpsertTaskManifest(m, t) ==
    LET e == [name |-> t.name, result |-> t.result]
        hits == {i \in 1..Len(m) : m[i].name = t.name}
    IN  IF hits # {}
        THEN LET first == CHOOSE i \in hits : \A j \in hits : i <= j
             IN  [m EXCEPT ![first] = e]
        ELSE Append(m, e)

\* a variant of _build_spec_into_task without the test for an existing task
BuildSpecIntoTaskOverwrites(cs, s) ==
    LET t == NewTask(s)
    IN  [cs EXCEPT !.tasks = Put(cs.tasks, s.name, t),
                   !.manifest = UpsertTaskManifest(cs.manifest, t), !.artifacts = UpsertArtifacts(cs, t),
                   !.tq = Append(cs.tq, t)]

\* Coordinator._build_spec_into_task followed by _enqueue_tasks([task])
BuildSpecIntoTask(cs, s) ==
    IF s.name \in DOMAIN cs.tasks
    THEN [cs EXCEPT !.err = "TaskDuplicateError"]
    ELSE LET t == NewTask(s)
         IN  [cs EXCEPT !.tasks = Put(cs.tasks, s.name, t),
                        !.manifest = UpsertTaskManifest(cs.manifest, t), !.artifacts = UpsertArtifacts(cs, t),
                        !.tq = Append(cs.tq, t)]

RECURSIVE BuildAll(_, _)
BuildAll(cs, ready) ==
    IF ready = << >> \/ cs.err # None THEN cs
    ELSE BuildAll(BuildSpecIntoTask(cs, Head(ready)), Tail(ready))

\* a variant of _process_ready_specs that leaves the ready specs on remaining_specs
ProcessReadySpecsKeepsReady(cs) ==
    LET isReady(s) == IsSpecReady(cs.tasks, s)
        ready == SelectSeq(cs.remaining, isReady)
    IN  BuildAll(cs, ready)

\* Coordinator._process_ready_specs, with _get_ready_specs
ProcessReadySpecs(cs) ==
    LET isReady(s) == IsSpecReady(cs.tasks, s)
        notReady(s) == ~IsSpecReady(cs.tasks, s)
        ready == SelectSeq(cs.remaining, isReady)
        rest == SelectSeq(cs.remaining, notReady)
    IN  BuildAll([cs EXCEPT !.remaining = rest], ready)

\* Coordinator._add_new_specs_from_task
AddNewSpecsFromTask(cs, t) ==
    IF t.specs = << >> THEN cs
    ELSE LET names == [i \in 1..Len(t.specs) |-> t.specs[i].name]
             hits == {i \in 1..Len(cs.subtasks) : cs.subtasks[i].parent = t.name}
         IN  [cs EXCEPT
                !.remaining = cs.remaining \o t.specs,
                !.spec_count = cs.spec_count + Len(t.specs),
                !.subtasks =
                    IF hits = {}
                    THEN Append(cs.subtasks, [parent |-> t.name, children |-> names])
                    ELSE [i \in 1..Len(cs.subtasks) |->
                            IF i \in hits
                            THEN [cs.subtasks[i] EXCEPT !.children = @ \o names]
                            ELSE cs.subtasks[i]]]

\* a variant of _add_sentinels_to_global_scratchpad that merges the global
\* scratchpad into the task's and keeps the outcome
AddSentinelsTaskWins(cs, t) ==
    [cs EXCEPT !.scratchpad = Merge(t.scratchpad, cs.scratchpad)]

\* Coordinator._add_sentinels_to_global_scratchpad
AddSentinelsToGlobalScratchpad(cs, t) ==
    [cs EXCEPT !.scratchpad = Merge(cs.scratchpad, t.scratchpad)]

\* a variant of the body of the loop of _process_done_tasks that leaves the
\* sentinels of the task out of the global scratchpad
ProcessDoneTaskNoMerge(cs, task) ==
    IF task.result = "FAILURE"
    THEN [cs EXCEPT !.manifest = UpsertTaskManifest(cs.manifest, task), !.artifacts = UpsertArtifacts(cs, task),
                    !.err = IF task.state = "RUNNING" THEN "TaskRunError"
                            ELSE IF task.state = "VALIDATING" THEN "TaskValidationError"
                            ELSE "StepFailedError"]
    ELSE LET t == [task EXCEPT !.state = GetNextState(task)]
             c1 == IF t.state = "PENDING_VALIDATION"
                   THEN [AddNewSpecsFromTask(cs, t) EXCEPT !.tq = Append(cs.tq, t)]
                   ELSE cs
             c2 == IF t.state = "DONE"
                   THEN [c1 EXCEPT !.manifest = UpsertTaskManifest(c1.manifest, t), !.artifacts = UpsertArtifacts(c1, t)]
                   ELSE c1
         IN  [c2 EXCEPT !.tasks = Put(c2.tasks, t.name, t)]

\* a variant of the loop body of _process_done_tasks without the FAILURE branch
ProcessDoneTaskIgnoresFailure(cs, task) ==
    LET t == [task EXCEPT !.state = GetNextState(task)]
        c1 == IF t.state = "PENDING_VALIDATION"
              THEN [AddSentinelsToGlobalScratchpad(AddNewSpecsFromTask(cs, t), t)
                       EXCEPT !.tq = Append(cs.tq, t)]
              ELSE cs
        c2 == IF t.state = "DONE"
              THEN [c1 EXCEPT !.manifest = UpsertTaskManifest(c1.manifest, t), !.artifacts = UpsertArtifacts(c1, t)]
              ELSE c1
    IN  [c2 EXCEPT !.tasks = Put(c2.tasks, t.name, t)]

\* the body of the loop of Coordinator._process_done_tasks, for one drained task
ProcessDoneTask(cs, task) ==
    IF task.result = "FAILURE"
    THEN [cs EXCEPT !.manifest = UpsertTaskManifest(cs.manifest, task), !.artifacts = UpsertArtifacts(cs, task),
                    !.err = IF task.state = "RUNNING" THEN "TaskRunError"
                            ELSE IF task.state = "VALIDATING" THEN "TaskValidationError"
                            ELSE "StepFailedError"]
    ELSE LET t == [task EXCEPT !.state = GetNextState(task)]
             c1 == IF t.state = "PENDING_VALIDATION"
                   THEN [AddSentinelsToGlobalScratchpad(AddNewSpecsFromTask(cs, t), t)
                            EXCEPT !.tq = Append(cs.tq, t)]
                   ELSE cs
             c2 == IF t.state = "DONE"
                   THEN [c1 EXCEPT !.manifest = UpsertTaskManifest(c1.manifest, t), !.artifacts = UpsertArtifacts(c1, t)]
                   ELSE c1
         IN  [c2 EXCEPT !.tasks = Put(c2.tasks, t.name, t)]

RECURSIVE ProcessDoneTasks(_, _)
\* Coordinator._process_done_tasks over the tasks _get_task_results drained
ProcessDoneTasks(cs, results) ==
    IF results = << >> \/ cs.err # None THEN cs
    ELSE ProcessDoneTasks(ProcessDoneTask(cs, Head(results)), Tail(results))

\* a variant of _is_task_finished_waiting_for_subtasks that ignores the subtasks
IsTaskFinishedIgnoringSubtasks(tasks, task_name, subtask_names) ==
    /\ task_name \in DOMAIN tasks
    /\ tasks[task_name].state = "WAITING_FOR_SUBTASKS"

\* Coordinator._is_task_finished_waiting_for_subtasks
IsTaskFinishedWaitingForSubtasks(tasks, task_name, subtask_names) ==
    /\ task_name \in DOMAIN tasks
    /\ tasks[task_name].state = "WAITING_FOR_SUBTASKS"
    /\ \A i \in 1..Len(subtask_names) :
          /\ subtask_names[i] \in DOMAIN tasks
          /\ tasks[subtask_names[i]].state = "DONE"

RECURSIVE CompletePass(_, _, _)
\* one pass of the for loop of _complete_tasks_waiting_for_subtasks over the
\* entries i.. of task_subtasks; done collects the parents completed so far
CompletePass(cs, i, done) ==
    IF i > Len(cs.subtasks) THEN [cs |-> cs, done |-> done]
    ELSE LET e == cs.subtasks[i]
         IN  IF IsTaskFinishedWaitingForSubtasks(cs.tasks, e.parent, e.children)
             THEN LET old == cs.tasks[e.parent]
                      t == [old EXCEPT !.state = GetNextState(old)]
                  IN  CompletePass(
                          [cs EXCEPT !.tasks = Put(cs.tasks, e.parent, t),
                                     !.manifest = UpsertTaskManifest(cs.manifest, t), !.artifacts = UpsertArtifacts(cs, t)],
                          i + 1, done \cup {e.parent})
             ELSE CompletePass(cs, i + 1, done)

RECURSIVE CompleteTasksWaitingForSubtasks(_)
\* Coordinator._complete_tasks_waiting_for_subtasks
CompleteTasksWaitingForSubtasks(cs) ==
    LET r == CompletePass(cs, 1, {})
        kept(e) == e.parent \notin r.done
        c == [r.cs EXCEPT !.subtasks = SelectSeq(r.cs.subtasks, kept)]
    IN  IF r.done = {} THEN c ELSE CompleteTasksWaitingForSubtasks(c)

\* a variant of _is_step_complete that wants a task to have been built
IsStepCompleteNeedsTask(tasks, count) ==
    /\ DOMAIN tasks # {}
    /\ Cardinality(DOMAIN tasks) = count
    /\ \A n \in DOMAIN tasks : tasks[n].state = "DONE"

\* a variant of the completion test that only compares the counts
IsStepCompleteCountsOnly(tasks, count) ==
    Cardinality(DOMAIN tasks) = count

\* Coordinator._is_step_complete
IsStepComplete(tasks, count) ==
    /\ Cardinality(DOMAIN tasks) = count
    /\ \A n \in DOMAIN tasks : tasks[n].state = "DONE"

\* Coordinator._step_result
StepResult(tasks, count) ==
    IF IsStepComplete(tasks, count)
    THEN IF \E n \in DOMAIN tasks : tasks[n].result = "FAILURE"
         THEN "FAILURE" ELSE "SUCCESS"
    ELSE "PENDING"

\* one iteration of the loop of Coordinator.run, up to the exception if one is raised
LoopBody(cs, results) ==
    LET c1 == ProcessDoneTasks(cs, results)
        c2 == IF c1.err = None THEN CompleteTasksWaitingForSubtasks(c1) ELSE c1
    IN  IF c2.err = None THEN ProcessReadySpecs(c2) ELSE c2

(***************************************************************************)
(* The run of a step.                                                      *)
(***************************************************************************)
CInit ==
    /\ step_specs \in StepChoices
    /\ emit_count \in 0..MaxEmit
    /\ can_fail \in BOOLEAN
    /\ step_tasks = << >>
    /\ manifest_tasks = << >>
    /\ remaining_specs = step_specs
    /\ spec_count = Len(step_specs)
    /\ task_queue = << >>
    /\ result_queue = << >>
    /\ task_subtasks = << >>
    /\ shutdown_event = FALSE
    /\ workers = [w \in Workers |-> [status |-> "notstarted", task |-> NoTask, called |-> {}]]
    /\ cpc = "init"
    /\ failure_reason = None
    /\ step_result = None
    /\ scratchpad = {}

\* Coordinator.run up to the loop: step.start() and _start_workers()
StartRun ==
    /\ cpc = "init"
    /\ cpc' = "loop"
    /\ workers' = [w \in Workers |-> [status |-> "idle", task |-> NoTask, called |-> {}]]
    /\ UNCHANGED <<svars, hvars>>
    /\ UNCHANGED <<scratchpad, step_specs, emit_count, can_fail, step_tasks, manifest_tasks,
                   remaining_specs, spec_count, task_queue, result_queue,
                   task_subtasks, shutdown_event, failure_reason, step_result>>

\* one iteration of the loop of Coordinator.run; when it raises, the except and
\* finally clauses: _kill_workers() and step.finish(_step_result(), str(e))
Tick ==
    /\ cpc = "loop"
    /\ ~IsStepComplete(step_tasks, spec_count)
    /\ LET cs == [tasks |-> step_tasks, manifest |-> manifest_tasks,
                  remaining |-> remaining_specs, spec_count |-> spec_count,
                  subtasks |-> task_subtasks, tq |-> task_queue, err |-> None,
                  scratchpad |-> scratchpad, artifacts |-> step_artifacts]
           c == LoopBody(cs, result_queue)
       IN  /\ step_tasks' = c.tasks
           /\ manifest_tasks' = c.manifest
           /\ remaining_specs' = c.remaining
           /\ spec_count' = c.spec_count
           /\ task_subtasks' = c.subtasks
           /\ task_queue' = c.tq
           /\ result_queue' = << >>
           /\ scratchpad' = c.scratchpad
           /\ step_artifacts' = c.artifacts
           /\ IF c.err = None
              THEN UNCHANGED <<workers, cpc, failure_reason, step_result>>
              ELSE /\ workers' = [w \in Workers |->
                          IF workers[w].status = "exited" THEN workers[w]
                          ELSE [status |-> "killed", task |-> NoTask, called |-> {}]]
                   /\ cpc' = "done"
                   /\ failure_reason' = c.err
                   /\ step_result' = StepResult(c.tasks, c.spec_count)
    /\ UNCHANGED <<svars, handle, copy, fvars, mgr, remote, invoked>>
    /\ UNCHANGED <<step_specs, emit_count, can_fail, shutdown_event>>

\* the loop test of Coordinator.run succeeds: _stop_workers() sets the event
StopWorkers ==
    /\ cpc = "loop"
    /\ IsStepComplete(step_tasks, spec_count)
    /\ shutdown_event' = TRUE
    /\ cpc' = "joining"
    /\ UNCHANGED <<svars, hvars>>
    /\ UNCHANGED <<scratchpad, step_specs, emit_count, can_fail, step_tasks, manifest_tasks,
                   remaining_specs, spec_count, task_queue, result_queue,
                   task_subtasks, workers, failure_reason, step_result>>

\* a variant of the end of the success path that does not wait for the workers
JoinWorkersWithoutJoin ==
    /\ cpc = "joining"
    /\ cpc' = "done"
    /\ failure_reason' = None
    /\ step_result' = StepResult(step_tasks, spec_count)
    /\ UNCHANGED <<svars, hvars>>
    /\ UNCHANGED <<scratchpad, step_specs, emit_count, can_fail, step_tasks, manifest_tasks,
                   remaining_specs, spec_count, task_queue, result_queue,
                   task_subtasks, shutdown_event, workers>>

\* the joins of _stop_workers(): a worker still alive after the timeout is
\* terminated; then the finally clause: step.finish(_step_result(), None)
JoinWorkers ==
    /\ cpc = "joining"
    /\ workers' = [w \in Workers |->
            IF workers[w].status = "exited" THEN workers[w]
            ELSE [status |-> "killed", task |-> NoTask, called |-> {}]]
    /\ cpc' = "done"
    /\ failure_reason' = None
    /\ step_result' = StepResult(step_tasks, spec_count)
    /\ UNCHANGED <<svars, hvars>>
    /\ UNCHANGED <<scratchpad, step_specs, emit_count, can_fail, step_tasks, manifest_tasks,
                   remaining_specs, spec_count, task_queue, result_queue,
                   task_subtasks, shutdown_event>>

\* Worker.run: the loop test finds the shutdown event not set
WorkerLoop(w) ==
    /\ workers[w].status = "idle"
    /\ ~shutdown_event
    /\ workers' = [workers EXCEPT ![w] = [status |-> "getting", task |-> NoTask, called |-> {}]]
    /\ UNCHANGED <<svars, hvars>>
    /\ UNCHANGED <<scratchpad, step_specs, emit_count, can_fail, step_tasks, manifest_tasks,
                   remaining_specs, spec_count, task_queue, result_queue,
                   task_subtasks, shutdown_event, cpc, failure_reason, step_result>>

\* a variant of the worker's get that leaves the task on the queue
WorkerGetLeavesTask(w) ==
    /\ workers[w].status = "getting"
    /\ task_queue # << >>
    /\ LET t == Head(task_queue)
       IN  workers' = [workers EXCEPT ![w] =
                [status |-> "busy", task |-> [t EXCEPT !.state = GetNextState(t)],
                 called |-> {}]]
    /\ UNCHANGED <<svars, hvars>>
    /\ UNCHANGED <<scratchpad, step_specs, emit_count, can_fail, step_tasks, manifest_tasks,
                   remaining_specs, spec_count, task_queue, result_queue, task_subtasks,
                   shutdown_event, cpc, failure_reason, step_result>>

\* Worker.run: task_queue.get(timeout=...) returns a task; execute_task
\* advances its state
WorkerGet(w) ==
    /\ workers[w].status = "getting"
    /\ task_queue # << >>
    /\ LET t == Head(task_queue)
       IN  workers' = [workers EXCEPT ![w] =
                [status |-> "busy", task |-> [t EXCEPT !.state = GetNextState(t)],
                 called |-> {}]]
    /\ task_queue' = Tail(task_queue)
    /\ UNCHANGED <<svars, hvars>>
    /\ UNCHANGED <<scratchpad, step_specs, emit_count, can_fail, step_tasks, manifest_tasks,
                   remaining_specs, spec_count, result_queue, task_subtasks,
                   shutdown_event, cpc, failure_reason, step_result>>

\* Worker.run: task_queue.get(timeout=...) times out on an empty queue: continue
WorkerGetTimeout(w) ==
    /\ workers[w].status = "getting"
    /\ task_queue = << >>
    /\ workers' = [workers EXCEPT ![w] = [status |-> "idle", task |-> NoTask, called |-> {}]]
    /\ UNCHANGED <<svars, hvars>>
    /\ UNCHANGED <<scratchpad, step_specs, emit_count, can_fail, step_tasks, manifest_tasks,
                   remaining_specs, spec_count, task_queue, result_queue,
                   task_subtasks, shutdown_event, cpc, failure_reason, step_result>>

\* the task after its body (run when RUNNING, validate when VALIDATING) returned
\* or raised inside the report wrapper
AfterBody(t, ok) ==
    IF ~ok THEN [t EXCEPT !.result = "FAILURE"]
    ELSE IF t.state = "RUNNING"
         THEN [t EXCEPT !.result = "SUCCESS", !.specs = Emits(t.name),
                        !.scratchpad = Stores(t.name)]
         ELSE [t EXCEPT !.result = "SUCCESS"]

\* Task.get_execution_method: the hook the state selects
GetExecutionMethod(t) ==
    IF t.state = "RUNNING" THEN {"run"}
    ELSE IF t.state = "VALIDATING" THEN {"validate"}
    ELSE {}

\* Task.abort: marks the manifest aborted
Abort(t) == [t EXCEPT !.result = "ABORTED"]

\* a variant of the dispatch of execute_task that calls run whatever the state
ExecuteTaskAlwaysRuns(t, abort_set, ok) ==
    IF ~abort_set
    THEN [task |-> AfterBody(t, ok), called |-> {"run"}]
    ELSE [task |-> Abort(t), called |-> {"abort"}]

\* a variant of the dispatch of execute_task without the abort test
ExecuteTaskIgnoresAbort(t, abort_set, ok) ==
    [task |-> AfterBody(t, ok), called |-> GetExecutionMethod(t)]

\* Worker.execute_task after the state update: the task it returns and the
\* hooks of the task it called
ExecuteTask(t, abort_set, ok) ==
    IF ~abort_set
    THEN [task |-> AfterBody(t, ok), called |-> GetExecutionMethod(t)]
    ELSE [task |-> Abort(t), called |-> {"abort"}]

\* the calls counted so far, with one more call of each hook in called on the
\* task of name n
RECURSIVE Count(_, _, _)
Count(inv, n, called) ==
    IF called = {} THEN inv
    ELSE LET h == CHOOSE x \in called : TRUE
             k == <<n, h>>
         IN  Count(Put(inv, k, IF k \in DOMAIN inv THEN inv[k] + 1 ELSE 1), n, called \ {h})

\* Worker.execute_task: the abort test, then the task body or task.abort()
WorkerExecute(w) ==
    /\ workers[w].status = "busy"
    /\ \E ok \in {TRUE} \cup {b \in {FALSE} : can_fail} :
          LET r == ExecuteTask(workers[w].task, shutdown_event, ok)
          IN  /\ workers' = [workers EXCEPT ![w] =
                     [status |-> "executed", task |-> r.task, called |-> r.called]]
              /\ invoked' = Count(invoked, workers[w].task.name, r.called)
    /\ UNCHANGED <<svars, handle, copy, fvars, mgr, remote, step_artifacts>>
    /\ UNCHANGED <<scratchpad, step_specs, emit_count, can_fail, step_tasks, manifest_tasks,
                   remaining_specs, spec_count, task_queue, result_queue,
                   task_subtasks, shutdown_event, cpc, failure_reason, step_result>>

\* Worker.run: result_queue.put(task)
WorkerPut(w) ==
    /\ workers[w].status = "executed"
    /\ result_queue' = Append(result_queue, workers[w].task)
    /\ workers' = [workers EXCEPT ![w] = [status |-> "idle", task |-> NoTask, called |-> {}]]
    /\ UNCHANGED <<svars, hvars>>
    /\ UNCHANGED <<scratchpad, step_specs, emit_count, can_fail, step_tasks, manifest_tasks,
                   remaining_specs, spec_count, task_queue, task_subtasks,
                   shutdown_event, cpc, failure_reason, step_result>>

\* Worker.run: the loop test finds the shutdown event set
WorkerExit(w) ==
    /\ workers[w].status = "idle"
    /\ shutdown_event
    /\ workers' = [workers EXCEPT ![w] = [status |-> "exited", task |-> NoTask, called |-> {}]]
    /\ UNCHANGED <<svars, hvars>>
    /\ UNCHANGED <<scratchpad, step_specs, emit_count, can_fail, step_tasks, manifest_tasks,
                   remaining_specs, spec_count, task_queue, result_queue,
                   task_subtasks, shutdown_event, cpc, failure_reason, step_result>>

CNext ==
    \/ StartRun
    \/ Tick
    \/ StopWorkers
    \/ JoinWorkers
    \/ \E w \in Workers : WorkerLoop(w)
    \/ \E w \in Workers : WorkerGet(w)
    \/ \E w \in Workers : WorkerGetTimeout(w)
    \/ \E w \in Workers : WorkerExecute(w)
    \/ \E w \in Workers : WorkerPut(w)
    \/ \E w \in Workers : WorkerExit(w)


(***************************************************************************)
(* The storage backends: one location, used by several processes at once.  *)
(* A stored resource is [exists, content, rev]; rev is the modification    *)
(* time (filesystem) or the generation (object store).  A process is       *)
(*   pc        where it is in its operation ("idle", "done" between two)   *)
(*   op        the operation: "stat", "read", "write", "write_if"          *)
(*   arg, exp  the data and the expected_revision of its write             *)
(*   prev      the revision it read before the bytes                       *)
(*   buf       the bytes it read, with the revision they were stored under *)
(*   fd        the inode its FileLock has open (0: none)                   *)
(*   ret       what its last operation returned or raised                  *)
(*   last_rev  the revision its last read or write returned                *)
(*   chk       the resource as its revision check saw it                   *)
(***************************************************************************)

\* the content of a file that open(..., 'wb') has truncated and nobody has
\* written yet
Empty == [by |-> 0, n |-> 0]

\* the content the location holds when the processes start
Initial == [by |-> 0, n |-> 1]

NoData == [by |-> 0, n |-> -1]

NoBuf == [data |-> NoData, under |-> 0]

NoObj == [exists |-> FALSE, content |-> Empty, rev |-> 0]

NoRet == [kind |-> None, data |-> NoData, under |-> 0, rev |-> 0]

\* a return of data read (under: the revision the data was stored under) and
\* of a revision
Ok(b, rev) == [kind |-> "ok", data |-> b.data, under |-> b.under, rev |-> rev]

Raised(kind) == [kind |-> kind, data |-> NoData, under |-> 0, rev |-> 0]

IdleProc ==
    [pc |-> "idle", op |-> None, arg |-> NoData, exp |-> 0, prev |-> 0,
     buf |-> NoBuf, fd |-> 0, ret |-> NoRet, last_rev |-> 0, chk |-> NoObj]

\* a process that is not in Manifest.update
IdleUpdate ==
    [pc |-> "idle", step_result |-> None, seen |-> NoObj, out |-> None, retried |-> FALSE,
     calls |-> 0]

\* the first step of an operation on a backend
FirstPc(b, o) ==
    IF b = "fs"
    THEN CASE o = "stat" -> "stat"
           [] o = "read" -> "r_stat1"
           [] o = "write" -> "w_trunc"
           [] o = "write_if" -> "l_open"
    ELSE CASE o = "stat" -> "g_stat"
           [] o = "read" -> "g_reload1"
           [] o = "write" -> "g_put"
           [] o = "write_if" -> "g_put"

\* process record pr as it calls a storage operation
Call(pr, o, data, expected) ==
    [pr EXCEPT !.pc = FirstPc(backend, o), !.op = o, !.arg = data,
               !.exp = expected, !.ret = NoRet]

\* process record pr as its operation returns or raises r
Return(pr, r) ==
    [pr EXCEPT !.pc = "done", !.ret = r, !.arg = NoData, !.exp = 0, !.prev = 0,
               !.buf = NoBuf, !.chk = NoObj,
               !.last_rev = IF r.kind = "ok" THEN r.rev ELSE @]

\* the modification times a write made now can get: the clock's current tick,
\* or the next one when time has passed since the last modification
Mtimes == {t \in {clock, clock + 1} : t <= MaxClock}

\* FilesystemStorage.stat
FsStat(p) ==
    /\ proc[p].pc = "stat"
    /\ proc' = [proc EXCEPT ![p] =
            Return(@, IF obj.exists THEN Ok(NoBuf, obj.rev) ELSE Raised("NotFound"))]
    /\ UNCHANGED <<cvars, hvars>>
    /\ UNCHANGED <<backend, obj, clock, next_gen, lock_ino, next_ino, flocked, ops, man>>

\* FilesystemStorage._read: previous_stat = self.stat(location)
FsReadStat1(p) ==
    /\ proc[p].pc = "r_stat1"
    /\ proc' = [proc EXCEPT ![p] =
            IF obj.exists
            THEN [@ EXCEPT !.prev = obj.rev, !.pc = "r_read"]
            ELSE Return(@, Raised("NotFound"))]
    /\ UNCHANGED <<cvars, hvars>>
    /\ UNCHANGED <<backend, obj, clock, next_gen, lock_ino, next_ino, flocked, ops, man>>

\* FilesystemStorage._read: open(location) and f.read()
FsReadData(p) ==
    /\ proc[p].pc = "r_read"
    /\ proc' = [proc EXCEPT ![p] =
            [@ EXCEPT !.buf = [data |-> obj.content, under |-> obj.rev],
                      !.pc = "r_stat2"]]
    /\ UNCHANGED <<cvars, hvars>>
    /\ UNCHANGED <<backend, obj, clock, next_gen, lock_ino, next_ino, flocked, ops, man>>

\* FilesystemStorage._read: current_mtime == previous_mtime
SameMtime(current_mtime, previous_mtime) == current_mtime = previous_mtime

\* FilesystemStorage._read: current_stat = self.stat(location) and the comparison
FsReadStat2(p) ==
    /\ proc[p].pc = "r_stat2"
    /\ proc' = [proc EXCEPT ![p] =
            IF SameMtime(obj.rev, @.prev)
            THEN Return(@, Ok(@.buf, obj.rev))
            ELSE [@ EXCEPT !.pc = "r_stat1", !.prev = 0, !.buf = NoBuf]]
    /\ UNCHANGED <<cvars, hvars>>
    /\ UNCHANGED <<backend, obj, clock, next_gen, lock_ino, next_ino, flocked, ops, man>>

\* FileLock acquire: os.open(lock_file, O_RDWR | O_TRUNC | O_CREAT)
FsLockOpen(p) ==
    /\ proc[p].pc = "l_open"
    /\ IF lock_ino # 0
       THEN /\ proc' = [proc EXCEPT ![p] = [@ EXCEPT !.fd = lock_ino, !.pc = "l_flock"]]
            /\ UNCHANGED <<lock_ino, next_ino>>
       ELSE /\ next_ino <= MaxIno
            /\ proc' = [proc EXCEPT ![p] = [@ EXCEPT !.fd = next_ino, !.pc = "l_flock"]]
            /\ lock_ino' = next_ino
            /\ next_ino' = next_ino + 1
    /\ UNCHANGED <<cvars, hvars>>
    /\ UNCHANGED <<backend, obj, clock, next_gen, flocked, ops, man>>

\* FileLock acquire: fcntl.flock(fd, LOCK_EX | LOCK_NB) succeeds
FsLockTake(p) ==
    /\ proc[p].pc = "l_flock"
    /\ proc[p].fd \notin flocked
    /\ flocked' = flocked \cup {proc[p].fd}
    /\ proc' = [proc EXCEPT ![p] = [@ EXCEPT !.pc = "c_stat"]]
    /\ UNCHANGED <<cvars, hvars>>
    /\ UNCHANGED <<backend, obj, clock, next_gen, lock_ino, next_ino, ops, man>>

\* FileLock acquire: flock fails, the descriptor is closed and the attempt is
\* repeated after the poll interval
FsLockRetry(p) ==
    /\ proc[p].pc = "l_flock"
    /\ proc[p].fd \in flocked
    /\ proc' = [proc EXCEPT ![p] = [@ EXCEPT !.fd = 0, !.pc = "l_open"]]
    /\ UNCHANGED <<cvars, hvars>>
    /\ UNCHANGED <<backend, obj, clock, next_gen, lock_ino, next_ino, flocked, ops, man>>

\* FileLock acquire: flock fails and the timeout of 10 s is over: Timeout is
\* raised, which takes write() to its finally clause
FsLockTimeout(p) ==
    /\ proc[p].pc = "l_flock"
    /\ proc[p].fd \in flocked
    /\ proc' = [proc EXCEPT ![p] =
            [@ EXCEPT !.fd = 0, !.pc = "f_unlink", !.ret = Raised("Timeout")]]
    /\ UNCHANGED <<cvars, hvars>>
    /\ UNCHANGED <<backend, obj, clock, next_gen, lock_ino, next_ino, flocked, ops, man>>

\* a variant of the revision check of write() that lets any revision pass
FsCheckOutcomeAlwaysOk(o, expected) ==
    IF ~o.exists THEN "NotFound" ELSE "ok"

\* FilesystemStorage.write: s = self.stat(p); if s.revision != expected_revision
FsCheckOutcome(o, expected) ==
    IF ~o.exists THEN "NotFound"
    ELSE IF o.rev # expected THEN "PreconditionFailed"
    ELSE "ok"

\* FilesystemStorage.write with expected_revision, under the lock: the stat and
\* the comparison
FsCheck(p) ==
    /\ proc[p].pc = "c_stat"
    /\ LET out == FsCheckOutcome(obj, proc[p].exp)
       IN  proc' = [proc EXCEPT ![p] =
               IF out = "ok"
               THEN [@ EXCEPT !.pc = "w_trunc", !.chk = obj]
               ELSE [@ EXCEPT !.pc = "l_exit", !.ret = Raised(out)]]
    /\ UNCHANGED <<cvars, hvars>>
    /\ UNCHANGED <<backend, obj, clock, next_gen, lock_ino, next_ino, flocked, ops, man>>

\* Path.write_bytes: open(location, 'wb') creates or truncates the file
FsWriteTrunc(p) ==
    /\ proc[p].pc = "w_trunc"
    /\ \E t \in Mtimes :
          /\ clock' = t
          /\ obj' = [exists |-> TRUE, content |-> Empty, rev |-> t]
    /\ proc' = [proc EXCEPT ![p] = [@ EXCEPT !.pc = "w_data", !.chk = NoObj]]
    /\ UNCHANGED <<cvars, hvars>>
    /\ UNCHANGED <<backend, next_gen, lock_ino, next_ino, flocked, ops, man>>

\* Path.write_bytes: the data is written and the file closed
FsWriteData(p) ==
    /\ proc[p].pc = "w_data"
    /\ \E t \in Mtimes :
          /\ clock' = t
          /\ obj' = [exists |-> TRUE, content |-> proc[p].arg, rev |-> t]
    /\ proc' = [proc EXCEPT ![p] = [@ EXCEPT !.pc = "w_ret"]]
    /\ UNCHANGED <<cvars, hvars>>
    /\ UNCHANGED <<backend, next_gen, lock_ino, next_ino, flocked, ops, man>>

\* FilesystemStorage.write: return p.stat().st_mtime
FsWriteRet(p) ==
    /\ proc[p].pc = "w_ret"
    /\ proc' = [proc EXCEPT ![p] =
            IF @.op = "write_if"
            THEN [@ EXCEPT !.pc = "l_exit", !.ret = Ok(NoBuf, obj.rev)]
            ELSE Return(@, Ok(NoBuf, obj.rev))]
    /\ UNCHANGED <<cvars, hvars>>
    /\ UNCHANGED <<backend, obj, clock, next_gen, lock_ino, next_ino, flocked, ops, man>>

\* a variant of leaving `with lock:` that closes the descriptor without
\* giving up the flock
FsLockExitKeepsFlock(p) ==
    /\ proc[p].pc = "l_exit"
    /\ proc' = [proc EXCEPT ![p] = [@ EXCEPT !.fd = 0, !.pc = "f_unlink"]]
    /\ UNCHANGED <<cvars, hvars>>
    /\ UNCHANGED <<backend, obj, clock, next_gen, lock_ino, next_ino, flocked, ops, man>>

\* FilesystemStorage.write: leaving `with lock:` releases the lock and closes
\* the descriptor
FsLockExit(p) ==
    /\ proc[p].pc = "l_exit"
    /\ flocked' = flocked \ {proc[p].fd}
    /\ proc' = [proc EXCEPT ![p] = [@ EXCEPT !.fd = 0, !.pc = "f_unlink"]]
    /\ UNCHANGED <<cvars, hvars>>
    /\ UNCHANGED <<backend, obj, clock, next_gen, lock_ino, next_ino, ops, man>>

\* FilesystemStorage.write, finally: lock_path.unlink(missing_ok=True)
FsLockUnlink(p) ==
    /\ proc[p].pc = "f_unlink"
    /\ lock_ino' = 0
    /\ proc' = [proc EXCEPT ![p] = Return(@, @.ret)]
    /\ UNCHANGED <<cvars, hvars>>
    /\ UNCHANGED <<backend, obj, clock, next_gen, next_ino, flocked, ops, man>>

\* GoogleStorage.stat: blob.reload()
GsStat(p) ==
    /\ proc[p].pc = "g_stat"
    /\ proc' = [proc EXCEPT ![p] =
            Return(@, IF obj.exists THEN Ok(NoBuf, obj.rev) ELSE Raised("NotFound"))]
    /\ UNCHANGED <<cvars, hvars>>
    /\ UNCHANGED <<backend, obj, clock, next_gen, lock_ino, next_ino, flocked, ops, man>>

\* GoogleStorage.read: blob.reload(); revision = str(blob.generation)
GsReload1(p) ==
    /\ proc[p].pc = "g_reload1"
    /\ proc' = [proc EXCEPT ![p] =
            IF obj.exists
            THEN [@ EXCEPT !.prev = obj.rev, !.pc = "g_download"]
            ELSE Return(@, Raised("NotFound"))]
    /\ UNCHANGED <<cvars, hvars>>
    /\ UNCHANGED <<backend, obj, clock, next_gen, lock_ino, next_ino, flocked, ops, man>>

\* GoogleStorage.read: data = blob.download_as_bytes()
GsDownload(p) ==
    /\ proc[p].pc = "g_download"
    /\ proc' = [proc EXCEPT ![p] =
            [@ EXCEPT !.buf = [data |-> obj.content, under |-> obj.rev],
                      !.pc = "g_reload2"]]
    /\ UNCHANGED <<cvars, hvars>>
    /\ UNCHANGED <<backend, obj, clock, next_gen, lock_ino, next_ino, flocked, ops, man>>

\* GoogleStorage.read: blob.reload() and revision == new_revision; the
\* revision returned is the one read first
GsReload2(p) ==
    /\ proc[p].pc = "g_reload2"
    /\ proc' = [proc EXCEPT ![p] =
            IF obj.rev = @.prev
            THEN Return(@, Ok(@.buf, @.prev))
            ELSE [@ EXCEPT !.pc = "g_reload1", !.prev = 0, !.buf = NoBuf]]
    /\ UNCHANGED <<cvars, hvars>>
    /\ UNCHANGED <<backend, obj, clock, next_gen, lock_ino, next_ino, flocked, ops, man>>

\* GoogleStorage.write: upload_from_string(data, if_generation_match=expected),
\* which the object store refuses with PreconditionFailed unless the live
\* generation is the expected one; without expected_revision it is accepted
GsPutOutcome(o, conditional, expected) ==
    IF conditional /\ (~o.exists \/ o.rev # expected)
    THEN "PreconditionFailed" ELSE "ok"

\* GoogleStorage.write: the upload, in one request
GsPut(p) ==
    /\ proc[p].pc = "g_put"
    /\ LET out == GsPutOutcome(obj, proc[p].op = "write_if", proc[p].exp)
       IN  IF out = "ok"
           THEN /\ obj' = [exists |-> TRUE, content |-> proc[p].arg, rev |-> next_gen]
                /\ next_gen' = next_gen + 1
                /\ proc' = [proc EXCEPT ![p] = Return(@, Ok(NoBuf, next_gen))]
           ELSE /\ proc' = [proc EXCEPT ![p] = Return(@, Raised(out))]
                /\ UNCHANGED <<obj, next_gen>>
    /\ UNCHANGED <<cvars, hvars>>
    /\ UNCHANGED <<backend, clock, lock_ino, next_ino, flocked, ops, man>>

(***************************************************************************)
(* Clients of one storage location: each process reads, writes, or writes  *)
(* with the revision it last got (or with the revision the location had    *)
(* at the start).                                                          *)
(***************************************************************************)
ClientOps == {"read", "write", "write_if"}

\* the state of the storage variables while nobody uses the location
StorageIdle ==
    /\ clock = 1
    /\ next_gen = 2
    /\ lock_ino = 0
    /\ next_ino = 1
    /\ flocked = {}
    /\ ops = 0
    /\ proc = [p \in Procs |-> IdleProc]
    /\ man = [p \in Procs |-> IdleUpdate]

\* a process calls read, write or write with expected_revision
ClientCall(p) ==
    /\ man[p].pc = "idle"
    /\ proc[p].pc \in {"idle", "done"}
    /\ ops < MaxOps
    /\ ops' = ops + 1
    /\ \E o \in ClientOps :
          \E e \in (IF o = "write_if" THEN {1} \cup ({proc[p].last_rev} \ {0}) ELSE {0}) :
             proc' = [proc EXCEPT ![p] = Call(@, o, [by |-> p, n |-> ops + 1], e)]
    /\ UNCHANGED <<cvars, hvars>>
    /\ UNCHANGED <<backend, obj, clock, next_gen, lock_ino, next_ino, flocked, man>>

(***************************************************************************)
(* Manifest.update: processes of different steps update the one manifest.  *)
(* Process p runs the step p of config.steps; the serialized RootManifest  *)
(* is the record [result, steps], steps mapping a step to its result.      *)
(* man[p] holds                                                            *)
(*   pc           where update is: "idle", "stat", "create", "read",       *)
(*                "write", "returned", "raised"                            *)
(*   step_result  the result of the StepManifest p passes to update        *)
(*   seen         the manifest as p last saw it (NoObj: none found)        *)
(*   out          the exception update raised, or None                     *)
(***************************************************************************)
StepResults == {"SUCCESS", "FAILURE"}

\* Manifest._create_empty, serialized: a placeholder StepManifest, PENDING, for
\* every step of config.steps
CreateEmpty == [result |-> "PENDING", steps |-> [q \in Procs |-> "PENDING"]]

\* a variant of _recalculate_result that takes an aborted step for a pending one
RecalculateResultIgnoresAborted(root) ==
    [root EXCEPT !.result =
        IF \E q \in DOMAIN root.steps : root.steps[q] = "FAILURE"
        THEN "FAILURE"
        ELSE IF \A q \in DOMAIN root.steps : root.steps[q] = "SUCCESS"
        THEN "SUCCESS"
        ELSE "PENDING"]

\* Manifest._recalculate_result
RecalculateResult(root) ==
    [root EXCEPT !.result =
        IF \E q \in DOMAIN root.steps : root.steps[q] \in {"FAILURE", "ABORTED"}
        THEN "FAILURE"
        ELSE IF \A q \in DOMAIN root.steps : root.steps[q] = "SUCCESS"
        THEN "SUCCESS"
        ELSE "PENDING"]

\* Manifest.update: self._root.steps[step_name] = step_manifest, then
\* _recalculate_result()
WithStep(root, step, result) ==
    RecalculateResult([root EXCEPT !.steps = Put(root.steps, step, result)])

\* RootManifest().model_validate_json accepts the text
ValidManifest(text) == "steps" \in DOMAIN text

\* StorageHandle.stat, read_text and write_text: the call is passed to the
\* backend the location resolves to, expected_revision included
HandleCall(pr, o, data, expected) == Call(pr, o, data, expected)

\* Manifest.update up to h.stat()
UpdateCall(p) ==
    /\ man[p].pc = "idle"
    /\ proc[p].pc = "idle"
    /\ \E r \in StepResults :
          man' = [man EXCEPT ![p] =
                     [@ EXCEPT !.pc = "stat", !.step_result = r, !.calls = @ + 1]]
    /\ proc' = [proc EXCEPT ![p] = HandleCall(@, "stat", NoData, 0)]
    /\ UNCHANGED <<cvars, hvars>>
    /\ UNCHANGED <<backend, obj, clock, next_gen, lock_ino, next_ino, flocked, ops>>

\* Manifest.update after h.stat(): on NotFoundError the new manifest is built
\* and h.write_text(self._serialize()) called; otherwise the loop is entered
\* and h.read_text() called
UpdateAfterStat(p) ==
    /\ man[p].pc = "stat"
    /\ proc[p].pc = "done"
    /\ IF proc[p].ret.kind = "NotFound"
       THEN /\ man' = [man EXCEPT ![p] = [@ EXCEPT !.pc = "create", !.seen = NoObj]]
            /\ proc' = [proc EXCEPT ![p] =
                    HandleCall(@, "write", WithStep(CreateEmpty, p, man[p].step_result), 0)]
       ELSE /\ man' = [man EXCEPT ![p] = [@ EXCEPT !.pc = "read"]]
            /\ proc' = [proc EXCEPT ![p] = HandleCall(@, "read", NoData, 0)]
    /\ UNCHANGED <<cvars, hvars>>
    /\ UNCHANGED <<backend, obj, clock, next_gen, lock_ino, next_ino, flocked, ops>>

\* Manifest.update, the NotFoundError branch after h.write_text: return; an
\* error of the write is not caught there
UpdateAfterCreate(p) ==
    /\ man[p].pc = "create"
    /\ proc[p].pc = "done"
    /\ man' = [man EXCEPT ![p] =
            IF proc[p].ret.kind = "ok"
            THEN [@ EXCEPT !.pc = "returned", !.seen = NoObj]
            ELSE [@ EXCEPT !.pc = "raised", !.seen = NoObj, !.out = proc[p].ret.kind]]
    /\ proc' = [proc EXCEPT ![p] = IdleProc]
    /\ UNCHANGED <<cvars, hvars>>
    /\ UNCHANGED <<backend, obj, clock, next_gen, lock_ino, next_ino, flocked, ops>>

\* a variant of the loop of update after h.read_text() that reads again when
\* the read failed or the text does not validate
UpdateAfterReadRetries(p) ==
    /\ man[p].pc = "read"
    /\ proc[p].pc = "done"
    /\ LET r == proc[p].ret
       IN  IF r.kind = "ok" /\ ValidManifest(r.data)
           THEN /\ man' = [man EXCEPT ![p] =
                       [@ EXCEPT !.pc = "write",
                                 !.seen = [exists |-> TRUE, content |-> r.data,
                                           rev |-> r.rev]]]
                /\ proc' = [proc EXCEPT ![p] =
                       HandleCall(@, "write_if", WithStep(r.data, p, man[p].step_result),
                            r.rev)]
           ELSE /\ man' = [man EXCEPT ![p] = [@ EXCEPT !.retried = TRUE]]
                /\ proc' = [proc EXCEPT ![p] = HandleCall(@, "read", NoData, 0)]
    /\ UNCHANGED <<cvars, hvars>>
    /\ UNCHANGED <<backend, obj, clock, next_gen, lock_ino, next_ino, flocked, ops>>

\* Manifest.update, the loop after h.read_text(): a StorageError or a text
\* that does not validate raises ManifestError; otherwise the step is put in
\* and h.write_text(..., expected_revision=revision) called
UpdateAfterRead(p) ==
    /\ man[p].pc = "read"
    /\ proc[p].pc = "done"
    /\ LET r == proc[p].ret
       IN  IF r.kind = "ok" /\ ValidManifest(r.data)
           THEN /\ man' = [man EXCEPT ![p] =
                       [@ EXCEPT !.pc = "write",
                                 !.seen = [exists |-> TRUE, content |-> r.data,
                                           rev |-> r.rev]]]
                /\ proc' = [proc EXCEPT ![p] =
                       HandleCall(@, "write_if", WithStep(r.data, p, man[p].step_result),
                            r.rev)]
           ELSE /\ man' = [man EXCEPT ![p] =
                       [@ EXCEPT !.pc = "raised", !.out = "ManifestError"]]
                /\ proc' = [proc EXCEPT ![p] = IdleProc]
    /\ UNCHANGED <<cvars, hvars>>
    /\ UNCHANGED <<backend, obj, clock, next_gen, lock_ino, next_ino, flocked, ops>>

\* Manifest.update, the loop after h.write_text: return, or on
\* PreconditionFailedError the next iteration (the sleep is not awaited), or
\* ManifestError on another StorageError; the lock's Timeout is not caught
UpdateAfterWrite(p) ==
    /\ man[p].pc = "write"
    /\ proc[p].pc = "done"
    /\ LET k == proc[p].ret.kind
       IN  IF k = "PreconditionFailed"
           THEN /\ man' = [man EXCEPT ![p] =
                       [@ EXCEPT !.pc = "read", !.seen = NoObj, !.retried = TRUE]]
                /\ proc' = [proc EXCEPT ![p] = HandleCall(@, "read", NoData, 0)]
           ELSE /\ man' = [man EXCEPT ![p] =
                       [@ EXCEPT !.pc = IF k = "ok" THEN "returned" ELSE "raised",
                                 !.seen = NoObj,
                                 !.out = IF k = "ok" THEN None
                                         ELSE IF k = "Timeout" THEN "Timeout"
                                         ELSE "ManifestError"]]
                /\ proc' = [proc EXCEPT ![p] = IdleProc]
    /\ UNCHANGED <<cvars, hvars>>
    /\ UNCHANGED <<backend, obj, clock, next_gen, lock_ino, next_ino, flocked, ops>>

\* the coordinator's variables while no step runs
CoordinatorIdle ==
    /\ step_specs = << >>
    /\ emit_count = 0
    /\ can_fail = FALSE
    /\ step_tasks = << >>
    /\ manifest_tasks = << >>
    /\ remaining_specs = << >>
    /\ spec_count = 0
    /\ task_queue = << >>
    /\ result_queue = << >>
    /\ task_subtasks = << >>
    /\ shutdown_event = FALSE
    /\ workers = [w \in Workers |-> [status |-> "notstarted", task |-> NoTask, called |-> {}]]
    /\ cpc = "off"
    /\ failure_reason = None
    /\ step_result = None
    /\ scratchpad = {}

\* a run of a step; the storage location is not used
Init ==
    /\ HandleIdle
    /\ CInit
    /\ backend = "fs"
    /\ obj = NoObj
    /\ StorageIdle

Next == CNext

\* processes using one storage location at the same time
StoreInit ==
    /\ HandleIdle
    /\ CoordinatorIdle
    /\ backend \in {"fs", "gs"}
    /\ obj \in {NoObj, [exists |-> TRUE, content |-> Initial, rev |-> 1]}
    /\ StorageIdle

StoreNext ==
    \/ \E p \in Procs : ClientCall(p)
    \/ \E p \in Procs : FsReadStat1(p)
    \/ \E p \in Procs : FsReadData(p)
    \/ \E p \in Procs : FsReadStat2(p)
    \/ \E p \in Procs : FsLockOpen(p)
    \/ \E p \in Procs : FsLockTake(p)
    \/ \E p \in Procs : FsLockRetry(p)
    \/ \E p \in Procs : FsLockTimeout(p)
    \/ \E p \in Procs : FsCheck(p)
    \/ \E p \in Procs : FsWriteTrunc(p)
    \/ \E p \in Procs : FsWriteData(p)
    \/ \E p \in Procs : FsWriteRet(p)
    \/ \E p \in Procs : FsLockExit(p)
    \/ \E p \in Procs : FsLockUnlink(p)
    \/ \E p \in Procs : GsReload1(p)
    \/ \E p \in Procs : GsDownload(p)
    \/ \E p \in Procs : GsReload2(p)
    \/ \E p \in Procs : GsPut(p)

StoreSpec == StoreInit /\ [][StoreNext]_vars

\* FilesystemStorage.write: opening the file or writing the data fails with an
\* I/O error; under the lock the exception leaves `with lock:`
FsWriteError(p) ==
    /\ proc[p].pc \in {"w_trunc", "w_data"}
    /\ proc' = [proc EXCEPT ![p] =
            IF @.op = "write_if"
            THEN [@ EXCEPT !.pc = "l_exit", !.chk = NoObj, !.ret = Raised("OSError")]
            ELSE Return(@, Raised("OSError"))]
    /\ UNCHANGED <<cvars, hvars>>
    /\ UNCHANGED <<backend, obj, clock, next_gen, lock_ino, next_ino, flocked, ops, man>>

\* processes using one location of the filesystem, whose writes can fail
LockInit == StoreInit /\ backend = "fs"

LockNext ==
    \/ \E p \in Procs : ClientCall(p)
    \/ \E p \in Procs : FsReadStat1(p)
    \/ \E p \in Procs : FsReadData(p)
    \/ \E p \in Procs : FsReadStat2(p)
    \/ \E p \in Procs : FsLockOpen(p)
    \/ \E p \in Procs : FsLockTake(p)
    \/ \E p \in Procs : FsLockRetry(p)
    \/ \E p \in Procs : FsLockTimeout(p)
    \/ \E p \in Procs : FsCheck(p)
    \/ \E p \in Procs : FsWriteTrunc(p)
    \/ \E p \in Procs : FsWriteData(p)
    \/ \E p \in Procs : FsWriteError(p)
    \/ \E p \in Procs : FsWriteRet(p)
    \/ \E p \in Procs : FsLockExit(p)
    \/ \E p \in Procs : FsLockUnlink(p)

LockSpec == LockInit /\ [][LockNext]_vars

(***************************************************************************)
(* Conditional writers of one filesystem location: every call is           *)
(* write(data, expected_revision), with the revision the writer last got   *)
(* or the initial one; a process may call again after its write ended.     *)
(***************************************************************************)
MaxWrites == 3

WriterCall(p) ==
    /\ man[p].pc = "idle"
    /\ proc[p].pc \in {"idle", "done"}
    /\ ops < MaxWrites
    /\ ops' = ops + 1
    /\ \E e \in {1} \cup ({proc[p].last_rev} \ {0}) :
          proc' = [proc EXCEPT ![p] = Call(@, "write_if", [by |-> p, n |-> ops + 1], e)]
    /\ UNCHANGED <<cvars, hvars>>
    /\ UNCHANGED <<backend, obj, clock, next_gen, lock_ino, next_ino, flocked, man>>

WriterNext ==
    \/ \E p \in Procs : WriterCall(p)
    \/ \E p \in Procs : FsLockOpen(p)
    \/ \E p \in Procs : FsLockTake(p)
    \/ \E p \in Procs : FsLockRetry(p)
    \/ \E p \in Procs : FsLockTimeout(p)
    \/ \E p \in Procs : FsCheck(p)
    \/ \E p \in Procs : FsWriteTrunc(p)
    \/ \E p \in Procs : FsWriteData(p)
    \/ \E p \in Procs : FsWriteRet(p)
    \/ \E p \in Procs : FsLockExit(p)
    \/ \E p \in Procs : FsLockUnlink(p)

WriterSpec == LockInit /\ [][WriterNext]_vars

(***************************************************************************)
(* Clients that write through an AsyncStorageHandle.  proc[p].exp keeps    *)
(* the expected_revision the client passed to the handle; proc[p].op is    *)
(* the call the backend gets.                                              *)
(***************************************************************************)
\* a variant of AsyncStorageHandle.write that hands expected_revision on
AsyncHandleWritePassesRevision(pr, data, expected_revision) ==
    Call(pr, "write_if", data, expected_revision)

\* AsyncStorageHandle.write and write_text:
\* return await self._storage.write(self._resolved, data)
AsyncHandleWrite(pr, data, expected_revision) ==
    [Call(pr, "write", data, 0) EXCEPT !.exp = expected_revision]

\* AsyncStorageHandle.read: return await self._storage.read(self._resolved)
AsyncHandleRead(pr) == Call(pr, "read", NoData, 0)

\* a process reads through a handle, or writes through it with
\* expected_revision: the revision it last got, or the initial one
AsyncClientCall(p) ==
    /\ man[p].pc = "idle"
    /\ proc[p].pc \in {"idle", "done"}
    /\ ops < MaxOps
    /\ ops' = ops + 1
    /\ \/ proc' = [proc EXCEPT ![p] = AsyncHandleRead(@)]
       \/ \E e \in {1} \cup ({proc[p].last_rev} \ {0}) :
             proc' = [proc EXCEPT ![p] =
                 AsyncHandleWrite(@, [by |-> p, n |-> ops + 1], e)]
    /\ UNCHANGED <<cvars, hvars>>
    /\ UNCHANGED <<backend, obj, clock, next_gen, lock_ino, next_ino, flocked, man>>

AsyncNext ==
    \/ \E p \in Procs : AsyncClientCall(p)
    \/ \E p \in Procs : FsReadStat1(p)
    \/ \E p \in Procs : FsReadData(p)
    \/ \E p \in Procs : FsReadStat2(p)
    \/ \E p \in Procs : FsWriteTrunc(p)
    \/ \E p \in Procs : FsWriteData(p)
    \/ \E p \in Procs : FsWriteRet(p)
    \/ \E p \in Procs : GsReload1(p)
    \/ \E p \in Procs : GsDownload(p)
    \/ \E p \in Procs : GsReload2(p)
    \/ \E p \in Procs : GsPut(p)

AsyncSpec == StoreInit /\ [][AsyncNext]_vars

\* processes updating one manifest at the same time; the manifest is missing,
\* or an earlier run has left one
ManifestInit ==
    /\ HandleIdle
    /\ CoordinatorIdle
    /\ backend \in {"fs", "gs"}
    /\ obj \in {NoObj, [exists |-> TRUE, content |-> CreateEmpty, rev |-> 1]}
    /\ StorageIdle

ManifestNext ==
    \/ \E p \in Procs : UpdateCall(p)
    \/ \E p \in Procs : UpdateAfterStat(p)
    \/ \E p \in Procs : UpdateAfterCreate(p)
    \/ \E p \in Procs : UpdateAfterRead(p)
    \/ \E p \in Procs : UpdateAfterWrite(p)
    \/ \E p \in Procs : FsStat(p)
    \/ \E p \in Procs : GsStat(p)
    \/ \E p \in Procs : FsReadStat1(p)
    \/ \E p \in Procs : FsReadData(p)
    \/ \E p \in Procs : FsReadStat2(p)
    \/ \E p \in Procs : FsLockOpen(p)
    \/ \E p \in Procs : FsLockTake(p)
    \/ \E p \in Procs : FsLockRetry(p)
    \/ \E p \in Procs : FsLockTimeout(p)
    \/ \E p \in Procs : FsCheck(p)
    \/ \E p \in Procs : FsWriteTrunc(p)
    \/ \E p \in Procs : FsWriteData(p)
    \/ \E p \in Procs : FsWriteRet(p)
    \/ \E p \in Procs : FsLockExit(p)
    \/ \E p \in Procs : FsLockUnlink(p)
    \/ \E p \in Procs : GsReload1(p)
    \/ \E p \in Procs : GsDownload(p)
    \/ \E p \in Procs : GsReload2(p)
    \/ \E p \in Procs : GsPut(p)

ManifestSpec == ManifestInit /\ [][ManifestNext]_vars

\* GoogleStorage.read: a request of the read fails with another exception
\* than NotFound, and StorageError is raised
GsReadFails(p) ==
    /\ proc[p].pc \in {"g_reload1", "g_download", "g_reload2"}
    /\ proc' = [proc EXCEPT ![p] = Return(@, Raised("StorageError"))]
    /\ UNCHANGED <<cvars, hvars>>
    /\ UNCHANGED <<backend, obj, clock, next_gen, lock_ino, next_ino, flocked, ops, man>>

\* GoogleStorage.write: the upload fails with another exception than
\* PreconditionFailed, and StorageError is raised
GsPutFails(p) ==
    /\ proc[p].pc = "g_put"
    /\ proc' = [proc EXCEPT ![p] = Return(@, Raised("StorageError"))]
    /\ UNCHANGED <<cvars, hvars>>
    /\ UNCHANGED <<backend, obj, clock, next_gen, lock_ino, next_ino, flocked, ops, man>>

\* Manifest.update up to h.stat(), for a step that succeeded
UpdateCallSuccess(p) ==
    /\ man[p].pc = "idle"
    /\ proc[p].pc = "idle"
    /\ man' = [man EXCEPT ![p] =
               [@ EXCEPT !.pc = "stat", !.step_result = "SUCCESS", !.calls = @ + 1]]
    /\ proc' = [proc EXCEPT ![p] = HandleCall(@, "stat", NoData, 0)]
    /\ UNCHANGED <<cvars, hvars>>
    /\ UNCHANGED <<backend, obj, clock, next_gen, lock_ino, next_ino, flocked, ops>>

FaultNext ==
    \/ \E p \in Procs : UpdateCallSuccess(p)
    \/ \E p \in Procs : UpdateAfterStat(p)
    \/ \E p \in Procs : UpdateAfterRead(p)
    \/ \E p \in Procs : UpdateAfterWrite(p)
    \/ \E p \in Procs : FsStat(p)
    \/ \E p \in Procs : GsStat(p)
    \/ \E p \in Procs : FsReadStat1(p)
    \/ \E p \in Procs : FsReadData(p)
    \/ \E p \in Procs : FsReadStat2(p)
    \/ \E p \in Procs : FsLockOpen(p)
    \/ \E p \in Procs : FsLockTake(p)
    \/ \E p \in Procs : FsLockRetry(p)
    \/ \E p \in Procs : FsLockTimeout(p)
    \/ \E p \in Procs : FsCheck(p)
    \/ \E p \in Procs : FsWriteTrunc(p)
    \/ \E p \in Procs : FsWriteData(p)
    \/ \E p \in Procs : FsWriteRet(p)
    \/ \E p \in Procs : FsLockExit(p)
    \/ \E p \in Procs : FsLockUnlink(p)
    \/ \E p \in Procs : GsReload1(p)
    \/ \E p \in Procs : GsDownload(p)
    \/ \E p \in Procs : GsReload2(p)
    \/ \E p \in Procs : GsPut(p)
    \/ \E p \in Procs : GsReadFails(p)
    \/ \E p \in Procs : GsPutFails(p)

\* the manifest location holding the manifest of an earlier run, so that
\* every update enters its loop
FaultInit ==
    /\ HandleIdle
    /\ CoordinatorIdle
    /\ backend \in {"fs", "gs"}
    /\ obj = [exists |-> TRUE, content |-> CreateEmpty, rev |-> 1]
    /\ StorageIdle

\* concurrent updates of the manifest on a store whose requests can fail
FaultSpec == FaultInit /\ [][FaultNext]_vars

\* the updates one process makes of the manifest, one per step it runs
MaxUpdates == 2

\* a process whose update returned runs its next step, which ends in another
\* Manifest.update
UpdateAgain(p) ==
    /\ man[p].pc = "returned"
    /\ man[p].calls < MaxUpdates
    /\ man' = [man EXCEPT ![p] = [IdleUpdate EXCEPT !.calls = man[p].calls]]
    /\ UNCHANGED <<cvars, hvars>>
    /\ UNCHANGED <<backend, obj, clock, next_gen, lock_ino, next_ino, flocked, ops, proc>>

RepeatNext ==
    \/ ManifestNext
    \/ \E p \in Procs : UpdateAgain(p)

\* the processes of a run updating the manifest step after step
RepeatSpec == ManifestInit /\ [][RepeatNext]_vars

\* Manifest.update up to h.stat(), for a step with any result, called while
\* no other process is updating the manifest
UpdateCallSolo(p) ==
    /\ man[p].pc = "idle"
    /\ proc[p].pc = "idle"
    /\ \A q \in Procs : man[q].pc \in {"idle", "returned", "raised"}
    /\ \E r \in Result :
          man' = [man EXCEPT ![p] =
                     [@ EXCEPT !.pc = "stat", !.step_result = r, !.calls = @ + 1]]
    /\ proc' = [proc EXCEPT ![p] = HandleCall(@, "stat", NoData, 0)]
    /\ UNCHANGED <<cvars, hvars>>
    /\ UNCHANGED <<backend, obj, clock, next_gen, lock_ino, next_ino, flocked, ops>>

SoloNext ==
    \/ \E p \in Procs : UpdateCallSolo(p)
    \/ \E p \in Procs : UpdateAfterStat(p)
    \/ \E p \in Procs : UpdateAfterCreate(p)
    \/ \E p \in Procs : UpdateAfterRead(p)
    \/ \E p \in Procs : UpdateAfterWrite(p)
    \/ \E p \in Procs : FsStat(p)
    \/ \E p \in Procs : GsStat(p)
    \/ \E p \in Procs : FsReadStat1(p)
    \/ \E p \in Procs : FsReadData(p)
    \/ \E p \in Procs : FsReadStat2(p)
    \/ \E p \in Procs : FsLockOpen(p)
    \/ \E p \in Procs : FsLockTake(p)
    \/ \E p \in Procs : FsCheck(p)
    \/ \E p \in Procs : FsWriteTrunc(p)
    \/ \E p \in Procs : FsWriteData(p)
    \/ \E p \in Procs : FsWriteRet(p)
    \/ \E p \in Procs : FsLockExit(p)
    \/ \E p \in Procs : FsLockUnlink(p)
    \/ \E p \in Procs : GsReload1(p)
    \/ \E p \in Procs : GsDownload(p)
    \/ \E p \in Procs : GsReload2(p)
    \/ \E p \in Procs : GsPut(p)
    \/ \E p \in Procs : UpdateAgain(p)

\* the processes of a run updating the manifest one after the other
SoloSpec == ManifestInit /\ [][SoloNext]_vars


\* the parent "p" and the specs it pushed, as the coordinator can hold them
\* between two passes: which entries task_subtasks has (p waits for c1 and c2;
\* or p waits for c1, which waits for c2, recorded in either order), and each
\* task built or not, in a state the coordinator stores
WaitShapes ==
    { << [parent |-> "p", children |-> <<"c1", "c2">>] >>,
      << [parent |-> "p", children |-> <<"c1">>],
         [parent |-> "c1", children |-> <<"c2">>] >>,
      << [parent |-> "c1", children |-> <<"c2">>],
         [parent |-> "p", children |-> <<"c1">>] >> }

StoredStates == {"PENDING_RUN", "PENDING_VALIDATION", "WAITING_FOR_SUBTASKS", "DONE"}

\* the specs the task `name` pushed, by the entries of task_subtasks
PushedBy(subtasks, name) ==
    LET hits == {i \in 1..Len(subtasks) : subtasks[i].parent = name}
    IN  IF hits = {} THEN << >>
        ELSE LET e == subtasks[CHOOSE i \in hits : TRUE]
             IN  [j \in 1..Len(e.children) |-> MkSpec(e.children[j], {})]

\* the coordinator's copy of the task `name` in a stored state
StoredTask(subtasks, name, st) ==
    [name |-> name, requires |-> {}, state |-> st,
     result |-> IF st = "PENDING_RUN" THEN "PENDING" ELSE "SUCCESS",
     specs |-> IF st = "PENDING_RUN" THEN << >> ELSE PushedBy(subtasks, name),
     scratchpad |-> IF st = "PENDING_RUN" THEN {} ELSE Stores(name)]

\* the global scratchpads the coordinator can hold for the tasks it stored:
\* the sentinels of the tasks it saw enter PENDING_VALIDATION, merged in some order
MergedScratchpads(tasks) ==
    LET merged == {n \in DOMAIN tasks :
                      tasks[n].state \in {"PENDING_VALIDATION", "VALIDATING", "DONE"}}
    IN  IF merged = {} THEN {{}}
        ELSE {{<<n, n>> : n \in merged} \cup {<<"shared", f>>} : f \in merged}

\* the coordinator inside its loop, holding a parent and its subtasks
WaitInit ==
    /\ HandleIdle
    /\ step_specs = << MkSpec("p", {}) >>
    /\ emit_count = 2
    /\ can_fail = FALSE
    /\ task_subtasks \in WaitShapes
    /\ \E built \in SUBSET {"c1", "c2"} :
          \E st \in [built \cup {"p"} -> StoredStates] :
             /\ step_tasks = [n \in built \cup {"p"} |-> StoredTask(task_subtasks, n, st[n])]
             /\ manifest_tasks = << >>
    /\ remaining_specs = << >>
    /\ spec_count = 3
    /\ task_queue = << >>
    /\ result_queue = << >>
    /\ shutdown_event = FALSE
    /\ workers = [w \in Workers |-> [status |-> "idle", task |-> NoTask, called |-> {}]]
    /\ cpc = "loop"
    /\ failure_reason = None
    /\ step_result = None
    /\ scratchpad \in MergedScratchpads(step_tasks)
    /\ backend = "fs"
    /\ obj = NoObj
    /\ StorageIdle

\* Coordinator._complete_tasks_waiting_for_subtasks, called on its own
CompleteWaiting ==
    /\ cpc = "loop"
    /\ LET cs == [tasks |-> step_tasks, manifest |-> manifest_tasks,
                  remaining |-> remaining_specs, spec_count |-> spec_count,
                  subtasks |-> task_subtasks, tq |-> task_queue, err |-> None,
                  scratchpad |-> scratchpad, artifacts |-> step_artifacts]
           c == CompleteTasksWaitingForSubtasks(cs)
       IN  /\ step_tasks' = c.tasks
           /\ manifest_tasks' = c.manifest
           /\ task_subtasks' = c.subtasks
           /\ step_artifacts' = c.artifacts
    /\ UNCHANGED <<svars, handle, copy, fvars, mgr, remote, invoked>>
    /\ UNCHANGED <<scratchpad, step_specs, emit_count, can_fail, remaining_specs, spec_count,
                   task_queue, result_queue, shutdown_event, workers, cpc,
                   failure_reason, step_result>>

WaitSpec == WaitInit /\ [][CompleteWaiting]_vars

\* the longest task queue a worker is started on
MaxQueue == 2

\* the names of the tasks a worker is handed
QueueNames == {"p", "a", "b"}

\* a task as the coordinator puts it on task_queue: just built, or run and
\* enqueued again to be validated
QueuedTask(n, st) ==
    [NewTask(MkSpec(n, {})) EXCEPT !.state = st,
                                   !.result = IF st = "PENDING_RUN" THEN "PENDING" ELSE "SUCCESS",
                                   !.scratchpad = IF st = "PENDING_RUN" THEN {} ELSE Stores(n)]

\* the task queues the workers are started on: tasks of distinct names
QueueShapes ==
    {q \in UNION {[1..k -> {QueuedTask(n, st) : n \in QueueNames,
                                                st \in {"PENDING_RUN", "PENDING_VALIDATION"}}]
                  : k \in 1..MaxQueue} :
        \A i, j \in DOMAIN q : i # j => q[i].name # q[j].name}

\* the workers of a step, started on a task queue, with the shutdown event
\* clear; the coordinator takes no step but to set the event
WorkerInit ==
    /\ HandleIdle
    /\ step_specs = << >>
    /\ emit_count \in 0..MaxEmit
    /\ can_fail \in BOOLEAN
    /\ task_queue \in QueueShapes
    /\ \A i \in DOMAIN task_queue :
          task_queue[i].state = "PENDING_VALIDATION" => Emits(task_queue[i].name) = << >>
    /\ step_tasks = [n \in NamesOn(task_queue) |-> task_queue[CHOOSE i \in DOMAIN task_queue : task_queue[i].name = n]]
    /\ manifest_tasks = << >>
    /\ remaining_specs = << >>
    /\ spec_count = Len(task_queue)
    /\ result_queue = << >>
    /\ task_subtasks = << >>
    /\ shutdown_event = FALSE
    /\ workers = [w \in Workers |-> [status |-> "idle", task |-> NoTask, called |-> {}]]
    /\ cpc = "loop"
    /\ failure_reason = None
    /\ step_result = None
    /\ scratchpad \in MergedScratchpads(step_tasks)
    /\ backend = "fs"
    /\ obj = NoObj
    /\ StorageIdle

\* Coordinator._stop_workers sets the shutdown event, whatever the workers do
SetShutdownEvent ==
    /\ ~shutdown_event
    /\ shutdown_event' = TRUE
    /\ UNCHANGED <<svars, hvars>>
    /\ UNCHANGED <<scratchpad, step_specs, emit_count, can_fail, step_tasks, manifest_tasks,
                   remaining_specs, spec_count, task_queue, result_queue,
                   task_subtasks, workers, cpc, failure_reason, step_result>>

WorkerNext ==
    \/ SetShutdownEvent
    \/ \E w \in Workers : WorkerLoop(w)
    \/ \E w \in Workers : WorkerGet(w)
    \/ \E w \in Workers : WorkerGetTimeout(w)
    \/ \E w \in Workers : WorkerExecute(w)
    \/ \E w \in Workers : WorkerPut(w)
    \/ \E w \in Workers : WorkerExit(w)

WorkerSpec == WorkerInit /\ [][WorkerNext]_vars

\* the workers are processes of their own: each keeps taking steps; the task
\* bodies push nothing and do not raise, which the loop does not look at
ExitInit == WorkerInit /\ emit_count = 0 /\ ~can_fail

FairWorkerSpec ==
    /\ ExitInit
    /\ [][WorkerNext]_vars
    /\ \A w \in Workers :
          /\ WF_vars(WorkerLoop(w))
          /\ WF_vars(WorkerGet(w))
          /\ WF_vars(WorkerGetTimeout(w))
          /\ WF_vars(WorkerExecute(w))
          /\ WF_vars(WorkerPut(w))
          /\ WF_vars(WorkerExit(w))

(***************************************************************************)
(* Storage handles: the resolution of a location and the choice of the     *)
(* backend.  Locations are strings, modelled as sequences of characters.   *)
(***************************************************************************)
MaxLoc == 4

Chars == {"a", "/", ":"}
Strings(n) == UNION {[1..k -> Chars] : k \in 0..n}

StartsWith(s, pre) == Len(s) >= Len(pre) /\ SubSeq(s, 1, Len(pre)) = pre
Occurs(s, sub, i) == i + Len(sub) - 1 <= Len(s) /\ SubSeq(s, i, i + Len(sub) - 1) = sub
Contains(s, sub) == \E i \in 1..Len(s) : Occurs(s, sub, i)
\* s.split(sub, 1)[0]
Before(s, sub) ==
    LET i == CHOOSE i \in 1..Len(s) :
                 Occurs(s, sub, i) /\ \A j \in 1..(i - 1) : ~Occurs(s, sub, j)
    IN  SubSeq(s, 1, i - 1)
RECURSIVE LStrip(_, _)
LStrip(s, ch) == IF s # << >> /\ Head(s) = ch THEN LStrip(Tail(s), ch) ELSE s

Slash == <<"/">>
SchemeSep == <<":", "/", "/">>
Gs == <<"g", "s">>
Http == <<"h", "t", "t", "p">>
Https == <<"h", "t", "t", "p", "s">>

\* the configurations a handle is given: none, local only, or with a release URI
ReleaseUri == Gs \o SchemeSep \o <<"b">>
WorkPath == <<"/", "a">>
Unset == << >>
NoConfig == [release_uri |-> Unset, work_path |-> Unset]
Configs == {NoConfig} \cup [release_uri : {Unset, ReleaseUri}, work_path : {WorkPath}]
Locations == Strings(MaxLoc) \cup {Gs \o SchemeSep \o s : s \in Strings(MaxLoc - 3)}

\* _resolve without the force_local test
ResolveIgnoresForceLocal(location, config, force_local) ==
    IF StartsWith(location, Slash) THEN [error |-> "ValueError"]
    ELSE IF Contains(location, SchemeSep) THEN [resolved |-> location]
    ELSE IF config = NoConfig THEN [error |-> "ValueError"]
    ELSE IF config.release_uri # Unset
         THEN [resolved |-> config.release_uri \o Slash \o location]
    ELSE [resolved |-> config.work_path \o Slash \o location]

\* StorageHandle._resolve: the resolved location, or the error raised
Resolve(location, config, force_local) ==
    IF StartsWith(location, Slash) THEN [error |-> "ValueError"]
    ELSE IF Contains(location, SchemeSep) THEN [resolved |-> location]
    ELSE IF config = NoConfig THEN [error |-> "ValueError"]
    ELSE IF ~force_local /\ config.release_uri # Unset
         THEN [resolved |-> config.release_uri \o Slash \o location]
    ELSE [resolved |-> config.work_path \o Slash \o location]

\* AsyncStorageHandle._resolve
AsyncResolve(location, config, force_local) ==
    IF StartsWith(location, Slash) THEN [resolved |-> location]
    ELSE IF Contains(location, SchemeSep) THEN [resolved |-> location]
    ELSE IF config = NoConfig THEN [error |-> "ValueError"]
    ELSE IF ~force_local /\ config.release_uri # Unset
         THEN [resolved |-> config.release_uri \o Slash \o location]
    ELSE [resolved |-> config.work_path \o Slash \o location]

\* StorageHandle._get_storage over storage_registry; NoProto is the key None
NoProto == <<"None">>
GetStorage(resolved) ==
    LET proto == IF Contains(resolved, SchemeSep) THEN Before(resolved, SchemeSep) ELSE NoProto
    IN  CASE proto = NoProto -> "FilesystemStorage"
          [] proto = Gs -> "GoogleStorage"
          [] proto \in {Http, Https} -> "HTTPStorage"
          [] OTHER -> "NoopStorage"

\* StorageRegistry.get_storage over async_storage_registry
RegistryGetStorage(location) ==
    CASE StartsWith(location, Gs \o SchemeSep) -> "GoogleStorage"
      [] StartsWith(location, Http \o SchemeSep) -> "HTTPStorage"
      [] StartsWith(location, Https \o SchemeSep) -> "HTTPStorage"
      [] StartsWith(location, Slash) -> "FilesystemStorage"
      [] OTHER -> "NoopStorage"

\* the arguments of a handle about to be constructed
HandleArgs == [pc : {"args"}, location : Locations, config : Configs, force_local : BOOLEAN]

\* StorageHandle.__init__
NewStorageHandle ==
    /\ handle.pc = "args"
    /\ LET r == Resolve(handle.location, handle.config, handle.force_local)
       IN  handle' = IF "error" \in DOMAIN r
                     THEN [pc |-> "raised", class |-> "StorageHandle", args |-> handle,
                           error |-> r.error]
                     ELSE [pc |-> "built", class |-> "StorageHandle", args |-> handle,
                           location |-> handle.location, resolved |-> r.resolved,
                           storage |-> GetStorage(r.resolved)]
    /\ UNCHANGED <<cvars, svars, copy, xvars>>

\* AsyncStorageHandle.__init__
NewAsyncStorageHandle ==
    /\ handle.pc = "args"
    /\ LET config == handle.config
           location == IF config # NoConfig /\ StartsWith(handle.location, config.work_path)
                       THEN LStrip(SubSeq(handle.location, Len(config.work_path) + 1,
                                          Len(handle.location)), "/")
                       ELSE handle.location
           r == AsyncResolve(location, config, handle.force_local)
       IN  handle' = IF "error" \in DOMAIN r
                     THEN [pc |-> "raised", class |-> "AsyncStorageHandle", args |-> handle,
                           error |-> r.error]
                     ELSE [pc |-> "built", class |-> "AsyncStorageHandle", args |-> handle,
                           location |-> location, resolved |-> r.resolved,
                           storage |-> RegistryGetStorage(r.resolved)]
    /\ UNCHANGED <<cvars, svars, copy, xvars>>

HandleInit ==
    /\ handle \in HandleArgs
    /\ copy = NoCopy
    /\ ExtraIdle
    /\ CoordinatorIdle
    /\ backend = "fs"
    /\ obj = NoObj
    /\ StorageIdle

HandleNext ==
    \/ NewStorageHandle
    \/ NewAsyncStorageHandle

HandleSpec == HandleInit /\ [][HandleNext]_vars

(***************************************************************************)
(* copy_to: a source handle copied to a destination handle.  The source is *)
(* missing, a regular file, or a directory (a prefix in the object store); *)
(* the destination is missing or holds old data.                           *)
(***************************************************************************)
CopyArgs ==
    [pc : {"args"}, class : {"StorageHandle", "AsyncStorageHandle"},
     src_storage : {"fs", "gs"}, src : {"missing", "file", "dir"},
     dst_storage : {"fs", "gs"}, dst0 : {"missing", "old"}, dst : {"missing", "old"},
     error : {"none"}]

CopyRaised(error) == [copy EXCEPT !.pc = "raised", !.error = error]
CopyReturned == [copy EXCEPT !.pc = "returned", !.dst = "data"]

\* copy_within of a backend on a source: "ok" or the error it raises
CopyWithin(storage, src) ==
    IF storage = "fs"
    THEN CASE src = "missing" -> "NotFoundError"
           [] src = "dir" -> "ValueError"
           [] OTHER -> "ok"
    ELSE IF src = "file" THEN "ok" ELSE "NotFoundError"

\* read of an asynchronous backend on a source
StorageRead(storage, src) ==
    IF storage = "fs"
    THEN CASE src = "missing" -> "NotFoundError"
           [] src = "dir" -> "IsADirectoryError"
           [] OTHER -> "ok"
    ELSE IF src = "file" THEN "ok" ELSE "NotFoundError"

\* StorageHandle.copy_to: the test of the source's stat
CopyToStat ==
    /\ copy.pc = "args" /\ copy.class = "StorageHandle"
    /\ copy' = CASE copy.src = "missing" -> CopyRaised("NotFoundError")
                 [] copy.src = "dir" -> CopyRaised("ValueError")
                 [] OTHER -> [copy EXCEPT !.pc = "checked"]
    /\ UNCHANGED <<cvars, svars, handle, xvars>>

\* copy_to within one backend: the backend's copy_within
CopyToWithin ==
    /\ \/ copy.pc = "args" /\ copy.class = "AsyncStorageHandle"
       \/ copy.pc = "checked"
    /\ copy.src_storage = copy.dst_storage
    /\ LET r == CopyWithin(copy.src_storage, copy.src)
       IN  copy' = IF r = "ok" THEN CopyReturned ELSE CopyRaised(r)
    /\ UNCHANGED <<cvars, svars, handle, xvars>>

\* StorageHandle.copy_to across backends: download, then upload
CopyToDownloadUpload ==
    /\ copy.pc = "checked"
    /\ copy.src_storage # copy.dst_storage
    /\ copy' = CopyReturned
    /\ UNCHANGED <<cvars, svars, handle, xvars>>

\* AsyncStorageHandle.copy_to across backends: self.read()
CopyToRead ==
    /\ copy.pc = "args" /\ copy.class = "AsyncStorageHandle"
    /\ copy.src_storage # copy.dst_storage
    /\ LET r == StorageRead(copy.src_storage, copy.src)
       IN  copy' = IF r = "ok" THEN [copy EXCEPT !.pc = "read"] ELSE CopyRaised(r)
    /\ UNCHANGED <<cvars, svars, handle, xvars>>

\* AsyncStorageHandle.copy_to across backends: dest.write(data)
CopyToWrite ==
    /\ copy.pc = "read"
    /\ copy' = CopyReturned
    /\ UNCHANGED <<cvars, svars, handle, xvars>>

CopyInit ==
    /\ handle = NoHandle
    /\ copy \in {c \in CopyArgs : c.dst = c.dst0}
    /\ ExtraIdle
    /\ CoordinatorIdle
    /\ backend = "fs"
    /\ obj = NoObj
    /\ StorageIdle

CopyNext ==
    \/ CopyToStat
    \/ CopyToWithin
    \/ CopyToDownloadUpload
    \/ CopyToRead
    \/ CopyToWrite

CopySpec == CopyInit /\ [][CopyNext]_vars

(***************************************************************************)
(* ManifestManager: the runs of different steps complete their step in the *)
(* manifest at the release URI, an object store location.  Process p runs  *)
(* the step p of the configured steps and has its own work_path.  remote   *)
(* is NoRemote while the release has no manifest, else it holds the        *)
(* generation of the object and the manifest stored.  mgr[p] holds         *)
(*   pc           "none", "ready" (constructed), "upload" (in              *)
(*                _save_remote, about to upload), "refresh" (the upload    *)
(*                was refused), "done"                                     *)
(*   revision     self._revision                                           *)
(*   manifest     self.manifest                                            *)
(*   local        the manifest file under work_path                        *)
(*   step_result  the result of the step the run completes                 *)
(*   retried      an upload of this manager was refused                    *)
(***************************************************************************)
RemoteExists == remote.generation # 0

\* ManifestManager.__init__: self._revision = 0 and
\* self.manifest = self._load_remote() or self._load_local() or
\* self._create_empty(); nothing is under work_path yet
ManagerNew(p) ==
    /\ mgr[p].pc = "none"
    /\ \E r \in StepResults :
          mgr' = [mgr EXCEPT ![p] =
              [pc |-> "ready",
               revision |-> remote.generation,
               manifest |-> IF RemoteExists THEN remote.manifest ELSE CreateEmpty,
               local |-> None,
               step_result |-> r,
               retried |-> FALSE]]
    /\ UNCHANGED <<cvars, svars, handle, copy, fvars, remote, invoked, step_artifacts>>

\* ManifestManager._update_step: self.manifest.steps[name] = step.manifest and
\* _check_steps()
UpdateStep(m, p) == WithStep(m.manifest, p, m.step_result)

\* ManifestManager.complete up to _save_remote: _update_step(step) and
\* _save_local()
Complete(p) ==
    /\ mgr[p].pc = "ready"
    /\ mgr' = [mgr EXCEPT ![p] =
           [@ EXCEPT !.manifest = UpdateStep(mgr[p], p),
                     !.local = UpdateStep(mgr[p], p),
                     !.pc = "upload"]]
    /\ UNCHANGED <<cvars, svars, handle, copy, fvars, remote, invoked, step_artifacts>>

\* GoogleStorage.upload with revision: upload_from_filename(src,
\* if_generation_match=revision); generation 0 matches a missing object
UploadAccepted(p) == remote.generation = mgr[p].revision

\* ManifestManager._save_remote: h.upload(local_manifest_path, self._revision);
\* PreconditionFailedError takes the loop to _refresh_from_remote
SaveRemote(p) ==
    /\ mgr[p].pc = "upload"
    /\ IF UploadAccepted(p)
       THEN /\ remote' = [generation |-> remote.generation + 1,
                          manifest |-> mgr[p].local]
            /\ mgr' = [mgr EXCEPT ![p] = [@ EXCEPT !.pc = "done"]]
       ELSE /\ mgr' = [mgr EXCEPT ![p] = [@ EXCEPT !.pc = "refresh", !.retried = TRUE]]
            /\ UNCHANGED remote
    /\ UNCHANGED <<cvars, svars, handle, copy, fvars, invoked, step_artifacts>>

\* a variant of _refresh_from_remote that keeps what _load_remote returns:
\* self.manifest = self._load_remote() or self.manifest
RefreshFromRemoteKeepsLoaded(p) ==
    /\ mgr[p].pc = "refresh"
    /\ LET loaded == [mgr[p] EXCEPT
                         !.revision = remote.generation,
                         !.manifest = IF RemoteExists THEN remote.manifest ELSE @]
       IN  mgr' = [mgr EXCEPT ![p] =
               [loaded EXCEPT !.manifest = UpdateStep(loaded, p),
                              !.local = UpdateStep(loaded, p),
                              !.pc = "upload"]]
    /\ UNCHANGED <<cvars, svars, handle, copy, fvars, remote, invoked, step_artifacts>>

\* ManifestManager._refresh_from_remote: self._load_remote(), whose only effect
\* is self._revision = the remote generation (the manifest it returns is
\* dropped), then _update_step(self.relevant_step) and _save_local()
RefreshFromRemote(p) ==
    /\ mgr[p].pc = "refresh"
    /\ mgr' = [mgr EXCEPT ![p] =
           [@ EXCEPT !.revision = remote.generation,
                     !.manifest = UpdateStep(mgr[p], p),
                     !.local = UpdateStep(mgr[p], p),
                     !.pc = "upload"]]
    /\ UNCHANGED <<cvars, svars, handle, copy, fvars, remote, invoked, step_artifacts>>

\* the release has no manifest, or one in which no step is complete
ManagerInit ==
    /\ handle = NoHandle
    /\ copy = NoCopy
    /\ mgr = [p \in Procs |-> NoManager]
    /\ invoked = NoneInvoked
    /\ step_artifacts = << >>
    /\ disk = << >>
    /\ cw = NoCopyWithin
    /\ remote \in {NoRemote, [generation |-> 1, manifest |-> CreateEmpty]}
    /\ CoordinatorIdle
    /\ backend = "gs"
    /\ obj = NoObj
    /\ StorageIdle

ManagerNext ==
    \E p \in Procs :
        \/ ManagerNew(p)
        \/ Complete(p)
        \/ SaveRemote(p)
        \/ RefreshFromRemote(p)

ManagerSpec == ManagerInit /\ [][ManagerNext]_vars

(***************************************************************************)
(* Copies on the local filesystem.  disk maps a path to the content of the *)
(* regular file there, or to NoFile.  cw holds                             *)
(*   pc       "download" (Download.run is called), "within" (copy_within   *)
(*            is called), "checked", "link", "copy2", "fallback" (the      *)
(*            handles are on different backends), "returned", "raised"     *)
(*   src, dst the resolved source and destination                          *)
(*   before   the content of the source when the copy was called           *)
(***************************************************************************)
NoFile == "missing"
FileContents == {"x", "y"}
Source == <<"a">>
LocalPaths == {WorkPath \o Slash \o Source, WorkPath \o Slash \o <<":">>}

CopyWithinRaised(error) == [cw EXCEPT !.pc = "raised", !.error = error]

\* Download.run: src = StorageHandle(source, config), dst = StorageHandle(source,
\* config, force_local=True) and src.copy_to(dst), which tests the source's stat
\* and calls copy_within when both handles are on the same backend
DownloadRun ==
    /\ cw.pc = "download"
    /\ LET s == Resolve(cw.source, cw.config, FALSE)
           d == Resolve(cw.source, cw.config, TRUE)
       IN  cw' = IF GetStorage(s.resolved) # GetStorage(d.resolved)
                 THEN [cw EXCEPT !.pc = "fallback", !.src = s.resolved, !.dst = d.resolved]
                 ELSE IF disk[s.resolved] = NoFile
                 THEN [CopyWithinRaised("NotFoundError") EXCEPT
                           !.src = s.resolved, !.dst = d.resolved]
                 ELSE [cw EXCEPT !.pc = "within", !.src = s.resolved, !.dst = d.resolved,
                                 !.before = disk[s.resolved]]
    /\ UNCHANGED <<cvars, svars, handle, copy, mgr, remote, invoked, step_artifacts, disk>>

\* FilesystemStorage.copy_within: if not src_path.exists(): raise NotFoundError
CopyWithinExists ==
    /\ cw.pc = "within"
    /\ cw' = IF disk[cw.src] = NoFile
             THEN CopyWithinRaised("NotFoundError")
             ELSE [cw EXCEPT !.pc = "checked"]
    /\ UNCHANGED <<cvars, svars, handle, copy, mgr, remote, invoked, step_artifacts, disk>>

\* check_destination(path, delete=True): if path.is_file(): path.unlink()
CheckDestination(path) ==
    IF disk[path] # NoFile THEN [disk EXCEPT ![path] = NoFile] ELSE disk

\* FilesystemStorage.copy_within: check_destination(dst_path, delete=True)
CopyWithinCheckDestination ==
    /\ cw.pc = "checked"
    /\ disk' = CheckDestination(cw.dst)
    /\ cw' = [cw EXCEPT !.pc = "link"]
    /\ UNCHANGED <<cvars, svars, handle, copy, mgr, remote, invoked, step_artifacts>>

\* FilesystemStorage.copy_within: dst_path.hardlink_to(src_path), which makes
\* the link, or raises OSError (no source, a destination that exists, a file
\* system without hard links), which takes the copy to shutil.copy2
CopyWithinHardlink ==
    /\ cw.pc = "link"
    /\ \/ /\ disk[cw.src] # NoFile /\ disk[cw.dst] = NoFile
          /\ disk' = [disk EXCEPT ![cw.dst] = disk[cw.src]]
          /\ cw' = [cw EXCEPT !.pc = "returned"]
       \/ /\ cw' = [cw EXCEPT !.pc = "copy2"]
          /\ UNCHANGED disk
    /\ UNCHANGED <<cvars, svars, handle, copy, mgr, remote, invoked, step_artifacts>>

\* FilesystemStorage.copy_within: shutil.copy2(src_path, dst_path); only
\* SameFileError is caught
CopyWithinCopy2 ==
    /\ cw.pc = "copy2"
    /\ IF disk[cw.src] = NoFile
       THEN /\ cw' = CopyWithinRaised("FileNotFoundError")
            /\ UNCHANGED disk
       ELSE IF cw.src = cw.dst
       THEN /\ cw' = [cw EXCEPT !.pc = "returned"]
            /\ UNCHANGED disk
       ELSE /\ disk' = [disk EXCEPT ![cw.dst] = disk[cw.src]]
            /\ cw' = [cw EXCEPT !.pc = "returned"]
    /\ UNCHANGED <<cvars, svars, handle, copy, mgr, remote, invoked, step_artifacts>>

\* the calls: Download.run on the source with or without a release URI, and
\* copy_within on a pair of local paths
CopyWithinCalls ==
    [pc : {"download"}, source : {Source},
     config : [release_uri : {Unset, ReleaseUri}, work_path : {WorkPath}],
     src : {Unset}, dst : {Unset}, before : {NoFile}, error : {"none"}]
    \cup [pc : {"within"}, source : {Unset}, config : {NoConfig},
          src : LocalPaths, dst : LocalPaths, before : {NoFile}, error : {"none"}]

SelfCopyInit ==
    /\ handle = NoHandle
    /\ copy = NoCopy
    /\ mgr = [p \in Procs |-> NoManager]
    /\ remote = NoRemote
    /\ invoked = NoneInvoked
    /\ step_artifacts = << >>
    /\ disk \in [LocalPaths \cup {ReleaseUri \o Slash \o Source} -> FileContents \cup {NoFile}]
    /\ \E c \in CopyWithinCalls :
          cw = IF c.pc = "within" THEN [c EXCEPT !.before = disk[c.src]] ELSE c
    /\ CoordinatorIdle
    /\ backend = "fs"
    /\ obj = NoObj
    /\ StorageIdle

SelfCopyNext ==
    \/ DownloadRun
    \/ CopyWithinExists
    \/ CopyWithinCheckDestination
    \/ CopyWithinHardlink
    \/ CopyWithinCopy2

SelfCopySpec == SelfCopyInit /\ [][SelfCopyNext]_vars

Spec == Init /\ [][Next]_vars

\* the scheduling of the coordinator's loop and of the worker processes: each
\* keeps running as long as it has something to do
FairSpec ==
    /\ Init /\ [][Next]_vars
    /\ WF_vars(StartRun \/ Tick \/ StopWorkers \/ JoinWorkers)
    /\ \A w \in Workers :
          WF_vars(WorkerLoop(w) \/ WorkerGet(w) \/ WorkerGetTimeout(w)
                    \/ WorkerExecute(w) \/ WorkerPut(w) \/ WorkerExit(w))

(***************************************************************************)
(* Properties of the coordinator.                                          *)
(***************************************************************************)

\* the tasks in PENDING_RUN on a task queue, by name
PendingRunOn(q) == {q[i].name : i \in {j \in 1..Len(q) : q[j].state = "PENDING_RUN"}}

RequirementsDone(tasks, req) ==
    \A r \in req : r \in DOMAIN tasks /\ tasks[r].state = "DONE"

\* C1: a spec is built into a task, and the task put on task_queue, only in a
\* step at whose end every name of its requires maps to a task of step.tasks
\* that is DONE.
C1_EnqueuedOnlyWhenRequirementsDone ==
    [][ /\ \A n \in (DOMAIN step_tasks') \ (DOMAIN step_tasks) :
              RequirementsDone(step_tasks', step_tasks'[n].requires)
        /\ \A i \in 1..Len(task_queue') :
              (/\ task_queue'[i].state = "PENDING_RUN"
               /\ task_queue'[i].name \notin PendingRunOn(task_queue))
              => RequirementsDone(step_tasks', task_queue'[i].requires) ]_vars

\* C1 witness: a task whose spec has requirements is on task_queue, to be run
C1_Witness ==
    \E i \in 1..Len(task_queue) :
        task_queue[i].state = "PENDING_RUN" /\ task_queue[i].requires # {}

\* the children a task pushed during run
ChildrenOf(t) == {t.specs[i].name : i \in 1..Len(t.specs)}

\* the names task_subtasks records under the parent n
RecordedChildren(subtasks, n) ==
    UNION { {subtasks[i].children[j] : j \in 1..Len(subtasks[i].children)} :
            i \in {k \in 1..Len(subtasks) : subtasks[k].parent = n} }

C5_EmittedSpecsAreScheduled ==
    \A n \in DOMAIN step_tasks :
        LET t == step_tasks[n]
        IN  t.specs # << >> =>
              /\ \A i \in 1..Len(t.specs) :
                    \/ \E j \in 1..Len(remaining_specs) : remaining_specs[j] = t.specs[i]
                    \/ t.specs[i].name \in DOMAIN step_tasks
              /\ spec_count >= Len(step_specs) + Len(t.specs)
              /\ t.state # "DONE" =>
                    \E j \in 1..Len(task_subtasks) :
                        /\ task_subtasks[j].parent = n
                        /\ \A c \in ChildrenOf(t) :
                              \E k \in 1..Len(task_subtasks[j].children) :
                                  task_subtasks[j].children[k] = c

\* C6 (as claimed): a step with dynamic subtasks whose tasks all succeed
\* eventually meets the completion test and the run terminates.
C6_DynamicStepTerminates ==
    (step_specs = << MkSpec("p", {}) >> /\ emit_count > 0 /\ ~can_fail)
        => <>(cpc = "done")

\* C10 (as claimed): when Coordinator.run has terminated, every task of
\* step.tasks is DONE.
C10_AllTasksDoneAtTermination ==
    cpc = "done" => \A n \in DOMAIN step_tasks : step_tasks[n].state = "DONE"

\* C11 (as claimed): when the run has terminated and a task came back from a
\* worker with result FAILURE, the result passed to step.finish is FAILURE and
\* the failure_reason passed is not None.
C11_FailedTaskGivesFailureResult ==
    (cpc = "done" /\ \E i \in 1..Len(manifest_tasks) : manifest_tasks[i].result = "FAILURE")
    => (step_result = "FAILURE" /\ failure_reason # None)

\* the position of a state on the path PENDING_RUN, RUNNING,
\* WAITING_FOR_SUBTASKS, PENDING_VALIDATION, VALIDATING, DONE
StateRank(st) ==
    CASE st = "PENDING_RUN" -> 0
      [] st = "RUNNING" -> 1
      [] st = "WAITING_FOR_SUBTASKS" -> 2
      [] st = "PENDING_VALIDATION" -> 3
      [] st = "VALIDATING" -> 4
      [] OTHER -> 5

\* C12: no step of the coordinator or of a worker moves a task backwards on
\* the path PENDING_RUN, RUNNING, WAITING_FOR_SUBTASKS, PENDING_VALIDATION,
\* VALIDATING, DONE: a task of step.tasks stays in step.tasks and its state
\* does not go back, so a DONE task stays DONE, and the task a worker takes
\* off the queue is not behind the state it was enqueued in.
C12_StateOnlyMovesForward ==
    [][ /\ \A n \in DOMAIN step_tasks :
              /\ n \in DOMAIN step_tasks'
              /\ StateRank(step_tasks'[n].state) >= StateRank(step_tasks[n].state)
              /\ step_tasks[n].state = "DONE" => step_tasks'[n].state = "DONE"
        /\ \A w \in Workers :
              (workers[w].status = "getting" /\ workers'[w].status = "busy")
              => StateRank(workers'[w].task.state) >= StateRank(Head(task_queue).state)
      ]_vars

\* C12 witness: a task has gone all the way to DONE while another is on its way
C12_Witness ==
    \E n, m \in DOMAIN step_tasks :
        /\ step_tasks[n].state = "DONE"
        /\ step_tasks[m].state = "PENDING_VALIDATION"

\* how many tasks named n wait on the queue q to be run
PendingCount(q, n) ==
    Cardinality({i \in 1..Len(q) : q[i].name = n /\ q[i].state = "PENDING_RUN"})

RECURSIVE EmittedOn(_)
\* how many specs the tasks on the queue q carry in context.specs
EmittedOn(q) == IF q = << >> THEN 0 ELSE Len(Head(q).specs) + EmittedOn(Tail(q))

C15_AbortSkipsRunAndValidate ==
    [][ \A w \in Workers :
          /\ (workers[w].status = "busy" /\ workers'[w].status = "executed" /\ shutdown_event)
                => /\ workers'[w].called = {"abort"}
                   /\ workers'[w].task.specs = workers[w].task.specs
                   /\ workers'[w].task.state = workers[w].task.state
          /\ (workers[w].status = "executed" /\ workers[w].called = {"abort"}
                /\ workers'[w] # workers[w])
                => result_queue' = Append(result_queue, workers[w].task)
      ]_vars

\* C15 witness: a task whose abort hook was called is on result_queue
C15_Witness ==
    \E i \in 1..Len(result_queue) : result_queue[i].result = "ABORTED"

\* C16: a worker that takes a task moves PENDING_RUN to RUNNING and
\* PENDING_VALIDATION to VALIDATING; with the shutdown event clear it then
\* calls exactly one hook, run for RUNNING and validate for VALIDATING, without
\* moving the state again, and puts that task on result_queue.
C16_ExecuteTaskDispatch ==
    [][ \A w \in Workers :
          /\ (workers[w].status = "getting" /\ workers'[w].status = "busy")
                => /\ workers'[w].task.name = Head(task_queue).name
                   /\ Head(task_queue).state = "PENDING_RUN"
                         => workers'[w].task.state = "RUNNING"
                   /\ Head(task_queue).state = "PENDING_VALIDATION"
                         => workers'[w].task.state = "VALIDATING"
          /\ (workers[w].status = "busy" /\ workers'[w].status = "executed" /\ ~shutdown_event)
                => /\ workers'[w].task.state = workers[w].task.state
                   /\ workers'[w].task.state \in {"RUNNING", "VALIDATING"}
                   /\ workers'[w].called =
                         IF workers'[w].task.state = "RUNNING" THEN {"run"} ELSE {"validate"}
          /\ (workers[w].status = "executed" /\ workers[w].called \in {{"run"}, {"validate"}}
                /\ workers'[w] # workers[w])
                => result_queue' = Append(result_queue, workers[w].task)
      ]_vars

\* C16 witness: a worker has called validate on a task it moved to VALIDATING
\* while another task, run by a worker, is back on result_queue in RUNNING
C16_Witness ==
    /\ \E w \in Workers :
          /\ workers[w].status = "executed"
          /\ workers[w].called = {"validate"}
          /\ workers[w].task.state = "VALIDATING"
    /\ \E i \in 1..Len(result_queue) :
          result_queue[i].state = "RUNNING" /\ result_queue[i].result = "SUCCESS"

\* C17: a step of the run leaves every (key, value) pair of the global
\* scratchpad in it, and the global scratchpad holds one value for a key.
C17_FirstWriterWins ==
    [][ /\ \A kv \in scratchpad : kv \in scratchpad'
        /\ \A kv, kw \in scratchpad' : kv[1] = kw[1] => kv = kw
      ]_vars

\* C17 witness: the global scratchpad holds a's value under the key both a and
\* b wrote, after the sentinels of b were merged too
C17_Witness ==
    /\ <<"shared", "a">> \in scratchpad
    /\ <<"b", "b">> \in scratchpad
    /\ "b" \in DOMAIN step_tasks
    /\ <<"shared", "b">> \in step_tasks["b"].scratchpad

C22_EmptyStepCompletesAtOnce ==
    step_specs = << >>
    => /\ ~ENABLED Tick
       /\ step_tasks = << >>
       /\ manifest_tasks = << >>
       /\ task_queue = << >>
       /\ result_queue = << >>
       /\ \A w \in Workers : workers[w].task = NoTask
       /\ cpc = "done"
             => /\ step_result = "SUCCESS"
                /\ failure_reason = None
                /\ shutdown_event
                /\ \A w \in Workers : workers[w].status \in {"exited", "killed"}

\* C22 witness: the run of a step without specs has ended, after a worker
\* left its loop on the shutdown event
C22_Witness ==
    /\ step_specs = << >>
    /\ cpc = "done"
    /\ \E w \in Workers : workers[w].status = "exited"

(***************************************************************************)
(* Properties of the storage backends.                                     *)
(***************************************************************************)

Failures == {"NotFound", "PreconditionFailed", "Timeout"}

\* C7 (as claimed): the bytes a read returns are bytes a write stored (or the
\* bytes the location held at the start), and the revision it returns is the
\* one they were stored under.
C7_ReadIsConsistent ==
    \A p \in Procs :
        (proc[p].pc = "done" /\ proc[p].op = "read" /\ proc[p].ret.kind = "ok")
        => /\ proc[p].ret.data # Empty
           /\ proc[p].ret.under = proc[p].ret.rev

\* C8 (as claimed): when a filesystem write with expected_revision replaces the
\* file, the file is as its revision check saw it, with the expected revision:
\* no other write, conditional or not, came between check and write.
C8_CheckAndWriteAtomic ==
    [][ \A p \in Procs :
           (/\ proc[p].op = "write_if"
            /\ proc[p].pc = "w_trunc"
            /\ proc'[p].pc = "w_data")
           => /\ obj = proc[p].chk
              /\ obj.rev = proc[p].exp ]_vars

C2_NoOverwriteOfUnseenRevision ==
    [][ \A p \in Procs :
           (/\ man[p].pc \in {"create", "write"}
            /\ \/ proc[p].pc = "w_trunc" /\ proc'[p].pc = "w_data"
               \/ proc[p].pc = "g_put" /\ obj' # obj)
           => obj = man[p].seen ]_vars

\* C3 (as claimed): once the concurrent updates have returned, the stored
\* manifest holds the step of each of them, as it passed it.
C3_NoLostUpdate ==
    (\A p \in Procs : man[p].pc \in {"idle", "returned", "raised"})
    => \A p \in Procs :
          man[p].pc = "returned"
          => /\ obj.exists
             /\ ValidManifest(obj.content)
             /\ obj.content.steps[p] = man[p].step_result

\* C19 (as claimed): an update that was refused with PreconditionFailed and
\* read the manifest again goes on to succeed: it does not end by raising.
C19_RetriedUpdateSucceeds ==
    \A p \in Procs : man[p].retried => man[p].pc # "raised"

\* C20: the manifest at the location has the result its steps give: FAILURE
\* when a step is FAILURE or ABORTED, otherwise SUCCESS when every step is
\* SUCCESS, otherwise PENDING; and when the update of a process has returned
\* and no other process has called update, a manifest is there, holding the
\* step as the update passed it.
C20_RootResultIsRollup ==
    /\ (obj.exists /\ ValidManifest(obj.content))
          => LET st == obj.content.steps
                 bad == \E q \in DOMAIN st : st[q] \in {"FAILURE", "ABORTED"}
                 good == \A q \in DOMAIN st : st[q] = "SUCCESS"
             IN  /\ bad => obj.content.result = "FAILURE"
                 /\ (~bad /\ good) => obj.content.result = "SUCCESS"
                 /\ (~bad /\ ~good) => obj.content.result = "PENDING"
    /\ \A p \in Procs :
          (man[p].pc = "returned" /\ \A q \in Procs \ {p} : man[q].pc = "idle" /\ man[q].calls = 0)
          => /\ obj.exists
             /\ ValidManifest(obj.content)
             /\ obj.content.steps[p] = man[p].step_result

\* C20 witness: an update has returned and the manifest stored has an ABORTED
\* step beside a SUCCESS one, and the result FAILURE
C20_Witness ==
    /\ \E p \in Procs : man[p].pc = "returned" /\ man[p].step_result = "ABORTED"
    /\ obj.exists
    /\ ValidManifest(obj.content)
    /\ \E q \in DOMAIN obj.content.steps : obj.content.steps[q] = "ABORTED"
    /\ \E q \in DOMAIN obj.content.steps : obj.content.steps[q] = "SUCCESS"
    /\ obj.content.result = "FAILURE"

\* C21: an update in its loop whose read raised a StorageError or returned a
\* text that does not validate, or whose write raised a StorageError other
\* than PreconditionFailed, raises ManifestError at once, calling neither
\* read nor write again; neither that step nor the failing step of the read
\* or write changes the stored manifest, and an update that raised stays so.
C21_UpdateFailsWithoutRetry ==
    [][ \A p \in Procs :
          LET r == proc[p].ret
              errors == {"NotFound", "StorageError"}
              readFailed == /\ man[p].pc = "read"
                            /\ proc[p].pc = "done"
                            /\ \/ r.kind \in errors
                               \/ r.kind = "ok" /\ ~ValidManifest(r.data)
              writeFailed == /\ man[p].pc = "write"
                             /\ proc[p].pc = "done"
                             /\ r.kind \in errors
          IN  /\ ((readFailed \/ writeFailed) /\ man'[p] # man[p])
                    => /\ man'[p].pc = "raised"
                       /\ man'[p].out = "ManifestError"
                       /\ proc'[p].pc = "idle"
                       /\ obj' = obj
              /\ (man[p].pc \in {"read", "write"} /\ proc[p].pc # "done"
                    /\ proc'[p].pc = "done" /\ proc'[p].ret.kind \in errors)
                    => obj' = obj
              /\ man[p].pc = "raised" => (man'[p] = man[p] /\ proc'[p] = proc[p])
      ]_vars

\* C21 witness: an update has raised ManifestError and a manifest is stored
C21_Witness ==
    \E p \in Procs :
        /\ man[p].pc = "raised"
        /\ man[p].out = "ManifestError"
        /\ obj.exists
        /\ ValidManifest(obj.content)


\* C25: on the failure path of Coordinator.run the shutdown signal is
\* broadcast (by _stop_workers) before any worker is force-killed: whenever a
\* worker has been killed, the shutdown event is set
C25_ShutdownBeforeKill ==
    (\E w \in Workers : workers[w].status = "killed") => shutdown_event

\* C26: once the shutdown event is set every worker leaves its loop; a worker
\* gives up the task it holds only by putting it on result_queue, so a worker
\* that was executing a task finishes it and puts it before it exits; and with
\* the event set no worker enters the loop body again or calls run or
\* validate: the task it still got is aborted.
C26_WorkersExitAfterShutdown ==
    /\ shutdown_event ~> (\A w \in Workers : workers[w].status = "exited")
    /\ [][ \A w \in Workers :
             /\ (workers[w].task # NoTask /\ workers'[w].task = NoTask)
                   => /\ result_queue' = Append(result_queue, workers[w].task)
                      /\ workers'[w].status = "idle"
             /\ workers'[w].status = "exited" /\ workers[w].status # "exited"
                   => workers[w].status = "idle" /\ workers[w].task = NoTask
             /\ shutdown_event
                   => /\ workers[w].status = "idle" => workers'[w].status \in {"idle", "exited"}
                      /\ workers'[w].status = "executed" /\ workers[w].status # "executed"
                            => workers'[w].called = {"abort"}
                      /\ workers[w].status = "exited" => workers'[w] = workers[w]
         ]_vars

\* C26 witness: with the event set, one worker has left its loop while another,
\* which ran the body of its task, has yet to put the task
C26_Witness ==
    /\ shutdown_event
    /\ \E w \in Workers : workers[w].status = "exited"
    /\ \E w \in Workers : workers[w].status = "executed" /\ workers[w].called = {"run"}

\* the first task with result FAILURE that a drain of q meets
FirstFailure(q) ==
    q[CHOOSE i \in 1..Len(q) :
         q[i].result = "FAILURE" /\ \A j \in 1..(i - 1) : q[j].result # "FAILURE"]

\* what a pass of the loop that drains the failed task f leaves: the run is
\* over, f's manifest is in the step, the step's copy of f is the one from
\* before the pass, and f is not on task_queue
FailureStopsRun(f) ==
    /\ cpc' = "done"
    /\ \E i \in 1..Len(manifest_tasks') :
          manifest_tasks'[i] = [name |-> f.name, result |-> "FAILURE"]
    /\ f.name \in DOMAIN step_tasks /\ step_tasks'[f.name] = step_tasks[f.name]
    /\ step_tasks[f.name].state # f.state
    /\ \A i \in 1..Len(task_queue') : task_queue'[i].name # f.name

\* a pass of the loop drains a result queue that holds a failed task
DrainsFailure ==
    /\ cpc = "loop" /\ result_queue' = << >>
    /\ \E i \in 1..Len(result_queue) : result_queue[i].result = "FAILURE"

Completable(tasks, e) ==
    /\ e.parent \in DOMAIN tasks
    /\ tasks[e.parent].state = "WAITING_FOR_SUBTASKS"
    /\ \A j \in 1..Len(e.children) :
          e.children[j] \in DOMAIN tasks /\ tasks[e.children[j]].state = "DONE"

RECURSIVE Resolvable(_, _, _)
\* n heads a chain of waiting parents that ends in children that are DONE
Resolvable(tasks, subtasks, n) ==
    /\ n \in DOMAIN tasks
    /\ tasks[n].state = "WAITING_FOR_SUBTASKS"
    /\ \E i \in 1..Len(subtasks) :
          /\ subtasks[i].parent = n
          /\ \A j \in 1..Len(subtasks[i].children) :
                LET c == subtasks[i].children[j]
                IN  /\ c \in DOMAIN tasks
                    /\ tasks[c].state = "DONE" \/ Resolvable(tasks, subtasks, c)

ChainOf(a) ==
    IF Contains(a.location, SchemeSep) THEN a.location
    ELSE IF ~a.force_local /\ a.config.release_uri # Unset
         THEN a.config.release_uri \o Slash \o a.location
    ELSE a.config.work_path \o Slash \o a.location

\* C23, as stated: every handle is built, and resolves by the three rules: a
\* location containing "://" to itself, else to release_uri/location when
\* force_local is false and a release URI is set, else to work_path/location,
\* which the filesystem backend serves
C23_AsClaimed ==
    handle.pc \in {"built", "raised"}
    => /\ handle.pc = "built"
       /\ handle.resolved = ChainOf(handle.args)
       /\ (handle.args.force_local /\ ~Contains(handle.args.location, SchemeSep))
             => handle.storage = "FilesystemStorage"

\* the string of k slashes
Slashes(k) == [i \in 1..k |-> "/"]

\* C23: the three rules apply to a location that does not start with "/" and,
\* unless it contains "://", only when a config is given.  StorageHandle
\* rejects a location starting with "/" and a relative location without a
\* config with ValueError; AsyncStorageHandle first removes a leading
\* work_path and the slashes after it, and uses a location that still starts
\* with "/" as it is.  A force_local handle built from a location without
\* "://" is served by the filesystem backend, also when a release URI is set.
C23_ResolutionChain ==
    handle.pc \in {"built", "raised"}
    => LET a == handle.args
           async == handle.class = "AsyncStorageHandle"
           stripped == async /\ a.config # NoConfig /\ StartsWith(a.location, a.config.work_path)
           raises == handle.pc = "raised" /\ handle.error = "ValueError"
           resolves(loc) ==
               /\ ~StartsWith(loc, Slash)
               /\ IF ~Contains(loc, SchemeSep) /\ a.config = NoConfig THEN raises
                  ELSE /\ handle.pc = "built"
                       /\ handle.location = loc
                       /\ handle.resolved = ChainOf([a EXCEPT !.location = loc])
       IN  /\ CASE stripped ->
                     \E k \in 0..Len(a.location) : \E loc \in Strings(Len(a.location)) :
                        /\ a.location = a.config.work_path \o Slashes(k) \o loc
                        /\ resolves(loc)
                [] ~stripped /\ StartsWith(a.location, Slash) ->
                     IF async THEN handle.pc = "built" /\ handle.resolved = a.location
                     ELSE raises
                [] OTHER -> resolves(a.location)
           /\ (handle.pc = "built" /\ a.force_local /\ ~Contains(handle.location, SchemeSep))
                 => /\ handle.storage = "FilesystemStorage"
                    /\ StartsWith(handle.resolved, Slash)
C23_Witness ==
    /\ handle.pc = "built"
    /\ handle.args.force_local
    /\ handle.args.config.release_uri = ReleaseUri
    /\ handle.args.location = <<"a", "/", "a">>
    /\ handle.resolved = WorkPath \o Slash \o handle.args.location
    /\ handle.storage = "FilesystemStorage"

\* C24, as stated: a copy_to whose source is missing fails with NotFound and
\* one whose source is not a regular file fails with an invalid-argument
\* error (ValueError), whatever the two backends are, and the destination is
\* left as it was
C24_CopyToRejectsBadSource ==
    (copy.pc \in {"raised", "returned"} /\ copy.src # "file")
    => /\ copy.pc = "raised"
       /\ copy.error = IF copy.src = "missing" THEN "NotFoundError" ELSE "ValueError"
       /\ copy.dst = copy.dst0

\* the positions of write() inside `with lock:`, where the process holds the
\* flock it took
HoldsLock(p) ==
    /\ proc[p].op = "write_if"
    /\ proc[p].pc \in {"c_stat", "w_trunc", "w_data", "w_ret", "l_exit"}

\* C30: a process that is not inside write() holds no descriptor of the lock
\* file, whether write returned or raised PreconditionFailed, NotFound,
\* Timeout or an I/O error; every flock is held by a process that is inside
\* `with lock:`, so a writer that finds the lock taken is waiting for a running
\* write, and with no write running no flock is left.
C30_LockReleasedOnExit ==
    /\ \A p \in Procs : proc[p].pc \in {"idle", "done", "f_unlink"} => proc[p].fd = 0
    /\ \A i \in flocked : \E p \in Procs : HoldsLock(p) /\ proc[p].fd = i
    /\ (\A p \in Procs : proc[p].pc \in {"idle", "done"}) => flocked = {}

\* C30 witness: a conditional write ended with an I/O error, and a later
\* writer has taken the lock
C30_Witness ==
    \E p, q \in Procs :
        /\ proc[p].pc = "done" /\ proc[p].op = "write_if" /\ proc[p].ret.kind = "OSError"
        /\ q # p /\ proc[q].pc = "c_stat" /\ flocked = {proc[q].fd}


(***************************************************************************)
(* Properties of ManifestManager.                                          *)
(***************************************************************************)
\* C31: when an upload of complete() was refused with PreconditionFailed, the
\* retried upload that succeeds stores the steps the winner wrote, unchanged,
\* together with the manager's own step.
C31_RetryKeepsWinnerSteps ==
    [][\A p \in Procs :
          (mgr[p].pc = "upload" /\ mgr[p].retried /\ mgr'[p].pc = "done" /\ RemoteExists)
          => /\ \A q \in Procs \ {p} :
                    remote'.manifest.steps[q] = remote.manifest.steps[q]
             /\ remote'.manifest.steps[p] = mgr[p].step_result]_vars


(***************************************************************************)
(* Properties of AsyncStorageHandle.                                       *)
(***************************************************************************)
\* C32: a write through an AsyncStorageHandle with expected_revision = r is
\* conditional: when the write reaches the target (the truncation on the
\* filesystem, the upload to the object store) while the target exists with a
\* revision other than r, the target stays as it is and the call raises
\* PreconditionFailed.
C32_HandleWriteIsConditional ==
    [][\A p \in Procs :
          (/\ proc'[p] # proc[p]
           /\ proc[p].pc \in {"w_trunc", "g_put"}
           /\ proc[p].exp # 0
           /\ obj.exists
           /\ obj.rev # proc[p].exp)
          => /\ obj' = obj
             /\ proc'[p].ret.kind = "PreconditionFailed"]_vars


(***************************************************************************)
(* Properties of the tasks in flight.                                      *)
(***************************************************************************)
\* the workers that hold a task
Holders(n) ==
    {w \in Workers : workers[w].status \in {"busy", "executed"} /\ workers[w].task.name = n}

\* the places a task of name n is at outside the coordinator: the positions on
\* the two queues and the workers
PlacesOf(n) ==
    Cardinality({i \in DOMAIN task_queue : task_queue[i].name = n})
    + Cardinality(Holders(n))
    + Cardinality({i \in DOMAIN result_queue : result_queue[i].name = n})

InFlight == NamesOn(task_queue) \cup NamesOn(result_queue)
            \cup {workers[w].task.name : w \in {v \in Workers :
                                            workers[v].status \in {"busy", "executed"}}}

\* C33: every task in flight is a built task and is at one place only: once on
\* task_queue, or with one worker, or once on result_queue; otherwise it is at
\* rest in the coordinator.
C33_TaskInOnePlace ==
    \A n \in InFlight : n \in DOMAIN step_tasks /\ PlacesOf(n) = 1

\* C33 witness: two tasks are in flight at different places, one with a worker
\* and one on a queue
C33_Witness ==
    \E n \in InFlight, m \in InFlight :
        /\ n # m
        /\ Holders(n) # {}
        /\ Holders(m) = {}


\* C34: run and validate of a task are each called at most once, and validate
\* only after run was called and returned without failure and the coordinator
\* took the result in (its copy of the task is past RUNNING, successful).
C34_RunOnceValidateOnceAfter ==
    /\ \A k \in DOMAIN invoked : k[2] \in {"run", "validate"} => invoked[k] <= 1
    /\ \A k \in DOMAIN invoked :
          k[2] = "validate"
          => /\ <<k[1], "run">> \in DOMAIN invoked
             /\ k[1] \in DOMAIN step_tasks
             /\ step_tasks[k[1]].state \in {"PENDING_VALIDATION", "DONE"}
             /\ step_tasks[k[1]].result = "SUCCESS"

\* C34 witness: a task has been run and validated, both once, and is done
C34_Witness ==
    \E n \in DOMAIN step_tasks :
        /\ step_tasks[n].state = "DONE"
        /\ <<n, "run">> \in DOMAIN invoked
        /\ <<n, "validate">> \in DOMAIN invoked


\* C35: whenever _is_step_complete is true no task is in flight: both queues
\* are empty and no worker holds a task.
C35_CompleteMeansNothingInFlight ==
    IsStepComplete(step_tasks, spec_count)
    => /\ task_queue = << >>
       /\ result_queue = << >>
       /\ \A w \in Workers : workers[w].status \notin {"busy", "executed"}

\* C35 witness: the loop test is about to find a step with tasks complete,
\* while the workers are still running
C35_Witness ==
    /\ IsStepComplete(step_tasks, spec_count)
    /\ DOMAIN step_tasks # {}
    /\ cpc = "loop"
    /\ \E w \in Workers : workers[w].status \in {"idle", "getting"}


\* the names of the specs of a step, and the specs a spec requires directly
SpecNames(specs) == {specs[i].name : i \in DOMAIN specs}
RequiredBy(specs, n) == UNION {specs[i].requires : i \in {j \in DOMAIN specs : specs[j].name = n}}

\* the names reachable from n along requires in at most k steps, one at least
RECURSIVE Reach(_, _, _)
Reach(specs, n, k) ==
    IF k = 0 THEN {}
    ELSE RequiredBy(specs, n)
         \cup UNION {Reach(specs, m, k - 1) : m \in RequiredBy(specs, n)}

\* every required name is a spec of the step, names identify specs and the
\* requires graph has no cycle
WellFormedStep(specs) ==
    /\ \A i \in DOMAIN specs : specs[i].requires \subseteq SpecNames(specs)
    /\ \A i \in DOMAIN specs, j \in DOMAIN specs : specs[i].name = specs[j].name => i = j
    /\ \A n \in SpecNames(specs) : n \notin Reach(specs, n, Len(specs))

\* C36 (as claimed): a run of a well-formed step in which no task fails, under
\* fair scheduling of the coordinator and the workers, terminates with every
\* spec built and every task DONE.
C36_WellFormedRunTerminatesDone ==
    (WellFormedStep(step_specs) /\ ~can_fail)
        => <>(/\ cpc = "done"
              /\ remaining_specs = << >>
              /\ SpecNames(step_specs) \subseteq DOMAIN step_tasks
              /\ \A n \in DOMAIN step_tasks : step_tasks[n].state = "DONE")


(***************************************************************************)
(* Properties of the lock of the conditional write.                        *)
(***************************************************************************)
\* C37: at most one process at a time is inside the locked stat-check-write
\* section of FilesystemStorage.write(expected_revision).
C37_OneWriterInLockedSection ==
    \A p \in Procs, q \in Procs : (HoldsLock(p) /\ HoldsLock(q)) => p = q


(***************************************************************************)
(* The frame of Manifest.update.                                           *)
(***************************************************************************)
\* C38: the write of Manifest.update for one step leaves the entry of every
\* other step as the revision it replaces has it: when the write reaches a
\* stored manifest, the text written agrees with that manifest on every step
\* other than the caller's.
C38_UpdateKeepsOtherSteps ==
    [][\A p \in Procs :
          (/\ man[p].pc \in {"create", "write"}
           /\ \/ proc[p].pc = "w_trunc" /\ proc'[p].pc = "w_data"
              \/ proc[p].pc = "g_put" /\ obj' # obj
           /\ obj.exists
           /\ ValidManifest(obj.content))
          => \A q \in Procs \ {p} :
                proc[p].arg.steps[q] = obj.content.steps[q]]_vars


(***************************************************************************)
(* Properties of the step manifest.                                        *)
(***************************************************************************)
\* the entries of step.manifest.tasks of the task of name n
EntriesOf(n) == {i \in 1..Len(manifest_tasks) : manifest_tasks[i].name = n}

\* the result of the TaskManifest last passed to upsert_task_manifest for the
\* built task n: FAILURE for the failed task that stopped the run, the result
\* of the validated task once it is DONE, PENDING from the build until then
LatestResults(n) ==
    IF step_tasks[n].state = "DONE" THEN {step_tasks[n].result}
    ELSE IF failure_reason # None THEN {"PENDING", "FAILURE"}
    ELSE {"PENDING"}

\* C39: during a run step.manifest.tasks holds one TaskManifest per built task
\* name, the latest one, and none of another name, and the artifacts of a task
\* are in step.manifest.artifacts at most once.
C39_OneManifestPerTask ==
    /\ NamesOn(manifest_tasks) = DOMAIN step_tasks
    /\ \A n \in DOMAIN step_tasks :
          /\ Cardinality(EntriesOf(n)) = 1
          /\ \A i \in EntriesOf(n) : manifest_tasks[i].result \in LatestResults(n)
    /\ \A i \in DOMAIN step_artifacts, j \in DOMAIN step_artifacts :
          step_artifacts[i] = step_artifacts[j] => i = j

\* C39 witness: two tasks were built and upserted again when they were DONE,
\* and their artifacts are in the step manifest
C39_Witness ==
    /\ Len(manifest_tasks) >= 2
    /\ \A i \in 1..Len(manifest_tasks) : manifest_tasks[i].result = "SUCCESS"
    /\ Len(step_artifacts) >= 2


(***************************************************************************)
(* Properties of copies on the local filesystem.                           *)
(***************************************************************************)
\* C40: a copy of a local file onto itself, once it has ended, has returned
\* and has left the file with the content it had.
C40_SelfCopyLeavesFile ==
    (/\ cw.pc \in {"returned", "raised"}
     /\ cw.src = cw.dst
     /\ cw.before # NoFile)
    => /\ cw.pc = "returned"
       /\ disk[cw.src] = cw.before

====
